---- MODULE Spec2Model ----
(***************************************************************************)
(* Model of CmisApi (sonic_platform_base/sonic_xcvr/api/public/cmis.py):   *)
(* the datapath lifecycle controller, the CDB firmware-upgrade             *)
(* orchestrator, the low-power and loopback controllers, the VDM and       *)
(* transceiver-information aggregators, the getters of monitors, flags    *)
(* and thresholds, the application advertisement and reset().  The         *)
(* register-access collaborator (xcvr_eeprom) is the register              *)
(* variables below plus the sets rfail / wfail of fields whose read        *)
(* returns None / whose write returns False.  The CDB collaborator is the  *)
(* environment: every command's status is a nondeterministic input.  The   *)
(* VDM collaborator is the raw dict handed to the aggregators.             *)
(***************************************************************************)
EXTENDS Integers, Sequences, FiniteSets, TLC

VARIABLES
    cmis_major,       \* consts.CMIS_MAJOR_REVISION
    datapath_deinit,  \* consts.DATAPATH_DEINIT_FIELD, one bit per host lane
    apsel,            \* consts.STAGED_CTRL_APSEL_FIELD_0_<lane>, lane 1..8
    apply_dpinit,     \* consts.STAGED_CTRL_APPLY_DPINIT_FIELD_0
    dp_state,         \* consts.DATA_PATH_STATE, "DP<n>State" for n in 1..8
    config_status,    \* consts.CONFIG_LANE_STATUS, "ConfigStatusLane<n>"
    rfail,            \* fields whose xcvr_eeprom.read returns None
    wfail,            \* fields whose xcvr_eeprom.write returns False
    call,             \* the last call: [name, mask, code, ec, inrow]
    ret,              \* what the last call returned: "True", "False", "None", "raise"
    oplog,            \* register accesses issued by the last call, in order
    prev,             \* snapshot after the previous decommission, while nothing intervened
    cdb_supported,    \* FALSE when self.cdb is None (flat memory at construction)
    fw,               \* the firmware call in progress: its position, locals and results
    cdblog,           \* CDB commands issued by the firmware call, in order, with their status
    module,           \* what the module advertises and holds besides the datapath registers
    cache,            \* values kept by read_only_cached_api_return, per decorated method
    lp,               \* the set_lpmode call in progress: its position, locals and clock
    lb,               \* loopback registers before the last loopback call, results of its setters
    out               \* what the last aggregate getter produced: a dict, None or an exception

apiVars == <<module, cache, lp, lb, out>>

dpVars == <<cmis_major, datapath_deinit, apsel, apply_dpinit, dp_state,
            config_status, rfail, wfail, call, ret, oplog, prev>>

-----------------------------------------------------------------------------
(* Program constants *)

NUM_CHANNELS == 8

(* Bounds of the model *)

MaxCmisMajor == 5      \* CMIS major revisions 3..MaxCmisMajor
MaxBadLanes == 1       \* lanes that report something else than the idle state

Lanes == 0 .. (NUM_CHANNELS - 1)
LaneNums == 1 .. NUM_CHANNELS
Bytes == 0 .. 255
AllLanes == (2 ^ NUM_CHANNELS) - 1          \* (1 << self.NUM_CHANNELS) - 1
CmisMajors == 3 .. MaxCmisMajor

-----------------------------------------------------------------------------
(* Python's integer bit operators on the non-negative values used here *)

BitAt(x, i) == (x \div (2 ^ i)) % 2                         \* (x >> i) & 1
BitSet(x, i) == IF BitAt(x, i) = 1 THEN x ELSE x + 2 ^ i      \* x |= (1 << i)
BitClear(x, i) == IF BitAt(x, i) = 1 THEN x - 2 ^ i ELSE x    \* x &= ~(1 << i)
InMask(lane, channel) == BitAt(channel, lane) = 1           \* ((1 << lane) & channel) != 0

Rd(field, val) == [op |-> "read", field |-> field, val |-> val, ok |-> TRUE]
Wr(field, val) == [op |-> "write", field |-> field, val |-> val, ok |-> TRUE]

ApselField(lane) == "STAGED_CTRL_APSEL_FIELD_0_" \o ToString(lane + 1)

Regs == [deinit |-> datapath_deinit, apsel |-> apsel, apply |-> apply_dpinit]

(* xcvr_eeprom.write(field, val): the register takes val unless the write fails *)
Written(field, old, val) == IF field \in wfail THEN old ELSE val

RECURSIVE BitOr(_, _)
BitOr(a, b) ==                                              \* a | b
    IF a = 0 THEN b
    ELSE IF b = 0 THEN a
    ELSE (IF (a % 2 = 1) \/ (b % 2 = 1) THEN 1 ELSE 0) + 2 * BitOr(a \div 2, b \div 2)

-----------------------------------------------------------------------------
(* set_datapath_init / set_datapath_deinit *)

InitLaneWrongPolarity(major, data, lane) ==
    IF major > 4 THEN BitClear(data, lane) ELSE BitSet(data, lane)

(* the body of set_datapath_init's loop for a lane selected by the mask *)
InitLane(major, data, lane) ==
    IF major >= 4 THEN BitClear(data, lane) ELSE BitSet(data, lane)

DeinitLaneToggle(major, data, lane) ==
    IF BitAt(data, lane) = 1 THEN BitClear(data, lane) ELSE BitSet(data, lane)

(* the body of set_datapath_deinit's loop for a lane selected by the mask *)
DeinitLane(major, data, lane) ==
    IF major >= 4 THEN BitSet(data, lane) ELSE BitClear(data, lane)

RECURSIVE InitLoop(_, _, _, _)
InitLoop(lane, channel, major, data) ==
    IF lane = NUM_CHANNELS THEN data
    ELSE InitLoop(lane + 1, channel, major,
                  IF InMask(lane, channel) THEN InitLane(major, data, lane) ELSE data)

RECURSIVE DeinitLoop(_, _, _, _)
DeinitLoop(lane, channel, major, data) ==
    IF lane = NUM_CHANNELS THEN data
    ELSE DeinitLoop(lane + 1, channel, major,
                    IF InMask(lane, channel) THEN DeinitLane(major, data, lane) ELSE data)

(* Each operation maps the registers R to [regs, log, ret] *)
set_datapath_init(R, channel) ==
    LET data == InitLoop(0, channel, cmis_major, R.deinit)
    IN  [regs |-> [R EXCEPT !.deinit = Written("DATAPATH_DEINIT_FIELD", @, data)],
         log  |-> <<Rd("CMIS_MAJOR_REVISION", cmis_major),
                    Rd("DATAPATH_DEINIT_FIELD", R.deinit),
                    Wr("DATAPATH_DEINIT_FIELD", data)>>,
         ret  |-> "None"]

set_datapath_deinit(R, channel) ==
    LET data == DeinitLoop(0, channel, cmis_major, R.deinit)
    IN  [regs |-> [R EXCEPT !.deinit = Written("DATAPATH_DEINIT_FIELD", @, data)],
         log  |-> <<Rd("CMIS_MAJOR_REVISION", cmis_major),
                    Rd("DATAPATH_DEINIT_FIELD", R.deinit),
                    Wr("DATAPATH_DEINIT_FIELD", data)>>,
         ret  |-> "None"]

-----------------------------------------------------------------------------
(* set_application, scs_apply_datapath_init *)

ApselDataLaneBit(appl_code, lane_first, ec) == BitOr(BitOr(appl_code * 16, 2 ^ lane_first), ec)

ApselData(appl_code, lane_first, ec) ==
    BitOr(BitOr(appl_code * 16, lane_first * 2), ec)        \* (appl_code << 4) | (lane_first << 1) | ec

(* the loop of set_application from `lane` on; lane_first is -1 until a lane is selected *)
RECURSIVE ApplLoop(_, _, _, _, _, _)
ApplLoop(lane, lane_first, channel, appl_code, ec, acc) ==
    IF lane = NUM_CHANNELS THEN acc
    ELSE IF ~InMask(lane, channel) THEN ApplLoop(lane + 1, lane_first, channel, appl_code, ec, acc)
    ELSE LET first == IF lane_first < 0 THEN lane ELSE lane_first
             data == ApselData(appl_code, first, ec)
             f == ApselField(lane)
         IN  ApplLoop(lane + 1, first, channel, appl_code, ec,
                      [regs |-> [acc.regs EXCEPT !.apsel[lane + 1] = Written(f, @, data)],
                       log  |-> Append(acc.log, Wr(f, data)),
                       ret  |-> "None"])

set_application(R, channel, appl_code, ec) ==
    ApplLoop(0, -1, channel, appl_code, ec, [regs |-> R, log |-> <<>>, ret |-> "None"])

scs_apply_datapath_init(R, channel) ==
    LET f == "STAGED_CTRL_APPLY_DPINIT_FIELD_0"
    IN  [regs |-> [R EXCEPT !.apply = Written(f, @, channel)],
         log  |-> <<Wr(f, channel)>>,
         ret  |-> IF f \in wfail THEN "False" ELSE "True"]

-----------------------------------------------------------------------------
(* decommission_all_datapaths *)

LaneVerdictDpOnly(lane) ==
    IF "DATA_PATH_STATE" \in rfail THEN "raise"
    ELSE IF dp_state[lane + 1] # "DataPathDeactivated" THEN "False"
    ELSE "next"

(* one iteration of the final loop: dp_state[name] / config_state[name] on a
   failed read (None) raises TypeError *)
LaneVerdict(lane) ==
    IF "DATA_PATH_STATE" \in rfail THEN "raise"
    ELSE IF dp_state[lane + 1] # "DataPathDeactivated" THEN "False"
    ELSE IF "CONFIG_LANE_STATUS" \in rfail THEN "raise"
    ELSE IF config_status[lane + 1] # "ConfigSuccess" THEN "False"
    ELSE "next"

RECURSIVE DecommissionLoop(_)
DecommissionLoop(lane) ==
    IF lane = NUM_CHANNELS THEN "True"
    ELSE IF LaneVerdict(lane) # "next" THEN LaneVerdict(lane)
    ELSE DecommissionLoop(lane + 1)

decommission_all_datapaths(R) ==
    LET s1 == set_datapath_deinit(R, AllLanes)
        s2 == set_application(s1.regs, AllLanes, 0, 0)
        s3 == scs_apply_datapath_init(s2.regs, AllLanes)
    IN  [regs |-> s3.regs,
         log  |-> s1.log \o s2.log \o s3.log
                  \o <<Rd("DATA_PATH_STATE", 0), Rd("CONFIG_LANE_STATUS", 0)>>,
         ret  |-> DecommissionLoop(0)]

-----------------------------------------------------------------------------
(* The calls of the datapath lifecycle controller, each one atomic *)

NoPrev == [valid |-> FALSE, regs |-> [deinit |-> 0, apsel |-> [l \in LaneNums |-> 0], apply |-> 0],
           ret |-> "None"]

Effect(r, c) ==
    /\ datapath_deinit' = r.regs.deinit
    /\ apsel' = r.regs.apsel
    /\ apply_dpinit' = r.regs.apply
    /\ oplog' = r.log
    /\ ret' = r.ret
    /\ call' = c
    /\ UNCHANGED <<cmis_major, dp_state, config_status, rfail, wfail, cdb_supported, fw, cdblog, apiVars>>

SetDatapathInit(channel) ==
    /\ Effect(set_datapath_init(Regs, channel),
              [name |-> "set_datapath_init", mask |-> channel, code |-> 0, ec |-> 0, inrow |-> 0])
    /\ prev' = NoPrev

SetDatapathDeinit(channel) ==
    /\ Effect(set_datapath_deinit(Regs, channel),
              [name |-> "set_datapath_deinit", mask |-> channel, code |-> 0, ec |-> 0, inrow |-> 0])
    /\ prev' = NoPrev

SetApplication(channel, appl_code, ec) ==
    /\ Effect(set_application(Regs, channel, appl_code, ec),
              [name |-> "set_application", mask |-> channel, code |-> appl_code, ec |-> ec, inrow |-> 0])
    /\ prev' = NoPrev

ScsApplyDatapathInit(channel) ==
    /\ Effect(scs_apply_datapath_init(Regs, channel),
              [name |-> "scs_apply_datapath_init", mask |-> channel, code |-> 0, ec |-> 0, inrow |-> 0])
    /\ prev' = NoPrev

(* prev keeps the registers and the result of the first of a row of calls *)
DecommissionAllDatapaths ==
    LET r == decommission_all_datapaths(Regs)
    IN  /\ Effect(r, [name |-> "decommission_all_datapaths", mask |-> AllLanes, code |-> 0, ec |-> 0,
                      inrow |-> IF prev.valid THEN 2 ELSE 1])
        /\ prev' = IF prev.valid THEN prev ELSE [valid |-> TRUE, regs |-> r.regs, ret |-> r.ret]

fwVars == <<cdb_supported, fw, cdblog>>
vars == <<dpVars, fwVars, apiVars>>

-----------------------------------------------------------------------------
(* Firmware upgrade orchestrator: the CDB collaborator's replies are inputs *)

CdbSuccess == 1
PasswordRequired == 70
LplBlockSize == 116

MaxImageSize == 1000
ImageSizes == {0, 50, 332, MaxImageSize}
StartSizes == {0, 100}
MaxBlockSizes == {300, 2048}
(* short images for the smallest block sizes, which take one step per byte *)
ShortImageSizes == {100, 103}
SmallBlockSizes == {1, 2}
StatusCodes == {CdbSuccess, PasswordRequired, 64}           \* 64: a CDB failure status
FwStatusBytes == {1, 16, 17, 65, 68}               \* register 9Fh:136 in the reply

(* a reply to CMD 0100h: nack = rpllen or rpl_chkcode is None; badchk = check code mismatch *)
FwInfoReplies ==
    [status : {CdbSuccess}, kind : {"ok", "badchk"}, fwStatus : FwStatusBytes]
    \cup [status : {PasswordRequired, 64}, kind : {"ok"}, fwStatus : {0}]
    \cup [status : {0}, kind : {"nack"}, fwStatus : {0}]

(* the file at imagepath: found is FALSE when open() raises FileNotFoundError *)
File(size) == [found |-> TRUE, size |-> size]
Missing == [found |-> FALSE, size |-> 0]

Cmd(c, st, addr, size) == [cmd |-> c, status |-> st, addr |-> addr, size |-> size]

Flags(fwStatus) ==
    [ARunning |-> BitAt(fwStatus, 0), ACommitted |-> BitAt(fwStatus, 1), AValid |-> BitAt(fwStatus, 2),
     BRunning |-> BitAt(fwStatus, 4), BCommitted |-> BitAt(fwStatus, 5), BValid |-> BitAt(fwStatus, 6)]

(* get_module_fw_info: result is "None", "0" or "tuple" (then flags holds the decoded bits) *)
get_module_fw_info(r1, r2) ==
    IF ~cdb_supported
    THEN [status |-> "False", result |-> "None", flags |-> Flags(0), log |-> <<>>]
    ELSE IF r1.kind = "nack"
    THEN [status |-> "False", result |-> "0", flags |-> Flags(0),
          log |-> <<Cmd("get_fw_info", r1.status, 0, 0)>>]
    ELSE LET retry == r1.status = PasswordRequired          \* status == 0x46
             r == IF retry THEN r2 ELSE r1
             log == IF retry
                    THEN <<Cmd("get_fw_info", r1.status, 0, 0), Cmd("module_enter_password", 0, 0, 0),
                           Cmd("get_fw_info", r2.status, 0, 0)>>
                    ELSE <<Cmd("get_fw_info", r1.status, 0, 0)>>
         IN  IF r.status = CdbSuccess /\ r.kind = "ok"
             THEN [status |-> "True", result |-> "tuple", flags |-> Flags(r.fwStatus), log |-> log]
             ELSE [status |-> "False", result |-> "None", flags |-> Flags(0), log |-> log]

(* module_fw_run / module_fw_commit: s1 is the status of the command, s2 of its retry *)
FwCommand(cmd, s1, s2) ==
    IF ~cdb_supported THEN [ret |-> "False", log |-> <<>>]
    ELSE IF s1 = CdbSuccess THEN [ret |-> "True", log |-> <<Cmd(cmd, s1, 0, 0)>>]
    ELSE IF s1 = PasswordRequired
    THEN [ret |-> "True",
          log |-> <<Cmd(cmd, s1, 0, 0), Cmd("module_enter_password", 0, 0, 0), Cmd(cmd, s2, 0, 0)>>]
    ELSE [ret |-> "False", log |-> <<Cmd(cmd, s1, 0, 0)>>]

module_fw_run(s1, s2) == FwCommand("run_fw_image", s1, s2)

module_fw_commit(s1, s2) == FwCommand("commit_fw_image", s1, s2)

(* get_module_fw_mgmt_feature: kind "None" is the bare `return None`, "raise" the KeyError of
   lplEplSupport[rpl[5]]; rpl2, rpl4, rpl5 are bytes 2, 4 and 5 of the reply to CMD 0041h *)
get_module_fw_mgmt_feature(status, chk_ok, rpl2, rpl4, rpl5) ==
    LET none == [kind |-> "dict", status |-> "False", feature |-> FALSE, startLPLsize |-> 0,
                 maxblocksize |-> 0, lplonly |-> FALSE, log |-> <<>>]
        log == <<Cmd("get_fw_management_features", status, 0, 0)>>
    IN  IF ~cdb_supported THEN none
        ELSE IF "CDB_SEQ_WRITE_LENGTH_EXT" \in rfail THEN [none EXCEPT !.kind = "None"]
        ELSE IF status = CdbSuccess /\ chk_ok
        THEN IF rpl5 \notin {0, 1, 16, 17} THEN [none EXCEPT !.kind = "raise", !.log = log]
             ELSE [kind |-> "dict", status |-> "True", feature |-> TRUE, startLPLsize |-> rpl2,
                   maxblocksize |-> (rpl4 + 1) * 8, lplonly |-> (rpl5 = 1), log |-> log]
        ELSE [none EXCEPT !.log = log]

FwIdle ==
    [op |-> "none", pc |-> "idle", imagefound |-> TRUE, imagesize |-> 0, startLPLsize |-> 0, maxblocksize |-> 0,
     lplonly |-> FALSE, address |-> 0, remaining |-> 0, download_status |-> "None",
     run_status |-> "None", commit_status |-> "None", switch_status |-> "None", ret |-> "None",
     init |-> Flags(0), after |-> Flags(0)]

(* BLOCK_SIZE of module_fw_download *)
BlockSize(f) == IF f.lplonly THEN LplBlockSize ELSE f.maxblocksize

BlockCountWhole(remaining, BLOCK_SIZE) == BLOCK_SIZE

(* count of one iteration of the transfer loop *)
BlockCount(remaining, BLOCK_SIZE) == IF remaining < BLOCK_SIZE THEN remaining ELSE BLOCK_SIZE

And(a, b) == IF a = "True" THEN b ELSE a                    \* Python's `a and b` on booleans

(* module_fw_download returned `status`: its caller is the user or module_fw_upgrade *)
DownloadReturns(f, status) ==
    IF f.op = "module_fw_download"
    THEN [f EXCEPT !.download_status = status, !.ret = status, !.pc = "done"]
    ELSE IF status # "True"
    THEN [f EXCEPT !.download_status = status, !.ret = "False", !.pc = "done"]
    ELSE [f EXCEPT !.download_status = status, !.pc = "sw_info"]

(* module_fw_switch returned `status` ("raise": the unpacking of a missing result raised) *)
SwitchReturns(f, status) ==
    IF f.op = "module_fw_switch" \/ status = "raise"
    THEN [f EXCEPT !.switch_status = status, !.ret = status, !.pc = "done"]
    ELSE [f EXCEPT !.switch_status = status, !.ret = And(f.download_status, status), !.pc = "done"]

-----------------------------------------------------------------------------
(* The calls of the firmware API *)

ModuleFwDownload(startLPLsize, maxblocksize, lplonly_flag, imagepath) ==
    /\ fw.pc = "idle"
    /\ fw' = [FwIdle EXCEPT !.op = "module_fw_download", !.pc = "dl_start",
                            !.imagefound = imagepath.found, !.imagesize = imagepath.size,
                            !.startLPLsize = startLPLsize, !.maxblocksize = maxblocksize,
                            !.lplonly = lplonly_flag]
    /\ cdblog' = <<>>
    /\ UNCHANGED <<dpVars, cdb_supported, apiVars>>

ModuleFwRun(s1, s2) ==
    /\ fw.pc = "idle"
    /\ LET r == module_fw_run(s1, s2)
       IN  /\ fw' = [FwIdle EXCEPT !.op = "module_fw_run", !.pc = "done", !.run_status = r.ret,
                                   !.ret = r.ret]
           /\ cdblog' = r.log
    /\ UNCHANGED <<dpVars, cdb_supported, apiVars>>

ModuleFwCommit(s1, s2) ==
    /\ fw.pc = "idle"
    /\ LET r == module_fw_commit(s1, s2)
       IN  /\ fw' = [FwIdle EXCEPT !.op = "module_fw_commit", !.pc = "done", !.commit_status = r.ret,
                                   !.ret = r.ret]
           /\ cdblog' = r.log
    /\ UNCHANGED <<dpVars, cdb_supported, apiVars>>

ModuleFwSwitch ==
    /\ fw.pc = "idle"
    /\ fw' = [FwIdle EXCEPT !.op = "module_fw_switch", !.pc = "sw_info"]
    /\ cdblog' = <<>>
    /\ UNCHANGED <<dpVars, cdb_supported, apiVars>>

ModuleFwUpgrade(imagepath) ==
    /\ fw.pc = "idle"
    /\ fw' = [FwIdle EXCEPT !.op = "module_fw_upgrade", !.pc = "up_info",
                            !.imagefound = imagepath.found, !.imagesize = imagepath.size]
    /\ cdblog' = <<>>
    /\ UNCHANGED <<dpVars, cdb_supported, apiVars>>

(* the caller takes the result; the next call starts from scratch *)
FwReturn ==
    /\ fw.pc = "done"
    /\ fw' = FwIdle
    /\ cdblog' = <<>>
    /\ UNCHANGED <<dpVars, cdb_supported, apiVars>>

-----------------------------------------------------------------------------
(* module_fw_upgrade: the two queries before the download *)

UpInfo(r1, r2) ==
    /\ fw.pc = "up_info"
    /\ LET info == get_module_fw_info(r1, r2)
       IN  /\ cdblog' = cdblog \o info.log
           /\ fw' = IF info.result = "tuple" THEN [fw EXCEPT !.pc = "up_feature"]
                    ELSE [fw EXCEPT !.ret = info.status, !.pc = "done"]
    /\ UNCHANGED <<dpVars, cdb_supported, apiVars>>

(* result['feature'] of None raises TypeError inside the handler of the first TypeError *)
UpFeature(status, chk_ok, rpl2, rpl4, rpl5) ==
    /\ fw.pc = "up_feature"
    /\ LET r == get_module_fw_mgmt_feature(status, chk_ok, rpl2, rpl4, rpl5)
       IN  /\ cdblog' = cdblog \o r.log
           /\ fw' = IF r.kind # "dict" THEN [fw EXCEPT !.ret = "raise", !.pc = "done"]
                    ELSE IF ~r.feature THEN [fw EXCEPT !.ret = r.status, !.pc = "done"]
                    ELSE [fw EXCEPT !.startLPLsize = r.startLPLsize, !.maxblocksize = r.maxblocksize,
                                    !.lplonly = r.lplonly, !.pc = "dl_start"]
    /\ UNCHANGED <<dpVars, cdb_supported, apiVars>>

-----------------------------------------------------------------------------
(* module_fw_download *)

(* CMD 0101h with status s1; on 70 the password is entered and CMD 0101h sent again (status s2) *)
DlStart(s1, s2) ==
    /\ fw.pc = "dl_start"
    /\ IF ~cdb_supported \/ ~fw.imagefound
       THEN /\ fw' = DownloadReturns(fw, "False")
            /\ cdblog' = cdblog
       ELSE LET start == Cmd("start_fw_download", s1, 0, fw.startLPLsize)
                loop == [fw EXCEPT !.pc = "dl_block", !.address = 0,
                                   !.remaining = fw.imagesize - fw.startLPLsize]
            IN  IF s1 = CdbSuccess
                THEN /\ fw' = loop
                     /\ cdblog' = Append(cdblog, start)
                ELSE IF s1 = PasswordRequired
                THEN /\ fw' = loop
                     /\ cdblog' = cdblog \o <<start, Cmd("module_enter_password", 0, 0, 0),
                                              Cmd("start_fw_download", s2, 0, fw.startLPLsize)>>
                ELSE /\ fw' = DownloadReturns(fw, "False")
                     /\ cdblog' = cdblog \o <<start, Cmd("abort_fw_download", 0, 0, 0)>>
    /\ UNCHANGED <<dpVars, cdb_supported, apiVars>>

BlockWriteFailedNoAbort(write) == <<write>>

(* the commands of an iteration whose block write failed: self.cdb.abort_fw_download() *)
BlockWriteFailed(write) == <<write, Cmd("abort_fw_download", 0, 0, 0)>>

(* one iteration of `while remaining > 0`, s the status of the block write *)
DlBlock(s) ==
    /\ fw.pc = "dl_block"
    /\ fw.remaining > 0
    /\ LET count == BlockCount(fw.remaining, BlockSize(fw))
           write == Cmd(IF fw.lplonly THEN "block_write_lpl" ELSE "block_write_epl",
                        s, fw.address, count)
       IN  IF s # CdbSuccess
           THEN /\ fw' = DownloadReturns(fw, "False")
                /\ cdblog' = cdblog \o BlockWriteFailed(write)
           ELSE /\ fw' = [fw EXCEPT !.address = @ + count, !.remaining = @ - count]
                /\ cdblog' = Append(cdblog, write)
    /\ UNCHANGED <<dpVars, cdb_supported, apiVars>>

(* the loop is left; CMD 0107h with status s *)
DlValidate(s) ==
    /\ fw.pc = "dl_block"
    /\ ~(fw.remaining > 0)
    /\ cdblog' = Append(cdblog, Cmd("validate_fw_image", s, 0, 0))
    /\ fw' = DownloadReturns(fw, IF s = CdbSuccess THEN "True" ELSE "False")
    /\ UNCHANGED <<dpVars, cdb_supported, apiVars>>

-----------------------------------------------------------------------------
(* module_fw_switch *)

BothValidEither(init) == init.AValid = 0 \/ init.BValid = 0

(* ImageAValid_init == 0 and ImageBValid_init == 0 (validity status: 0 = valid) *)
BothValid(init) == init.AValid = 0 /\ init.BValid = 0

SwitchDidNotHappen(init, after) ==
    \/ init.ARunning = 1 /\ after.ARunning = 1
    \/ init.BRunning = 1 /\ after.BRunning = 1

SwInfo(r1, r2) ==
    /\ fw.pc = "sw_info"
    /\ LET info == get_module_fw_info(r1, r2)
       IN  /\ cdblog' = cdblog \o info.log
           /\ fw' = IF info.result # "tuple" THEN SwitchReturns(fw, info.status)
                    ELSE IF BothValid(info.flags) THEN [fw EXCEPT !.init = info.flags, !.pc = "sw_run"]
                    ELSE SwitchReturns([fw EXCEPT !.init = info.flags], "False")
    /\ UNCHANGED <<dpVars, cdb_supported, apiVars>>

(* self.module_fw_run(mode = 0x01): the result is dropped *)
SwRun(s1, s2) ==
    /\ fw.pc = "sw_run"
    /\ LET r == module_fw_run(s1, s2)
       IN  /\ cdblog' = cdblog \o r.log
           /\ fw' = [fw EXCEPT !.run_status = r.ret, !.pc = "sw_commit"]
    /\ UNCHANGED <<dpVars, cdb_supported, apiVars>>

(* time.sleep(60); self.module_fw_commit(): the result is dropped *)
SwCommit(s1, s2) ==
    /\ fw.pc = "sw_commit"
    /\ LET r == module_fw_commit(s1, s2)
       IN  /\ cdblog' = cdblog \o r.log
           /\ fw' = [fw EXCEPT !.commit_status = r.ret, !.pc = "sw_info2"]
    /\ UNCHANGED <<dpVars, cdb_supported, apiVars>>

(* the second get_module_fw_info()['result'] is unpacked without a guard *)
SwInfo2(r1, r2) ==
    /\ fw.pc = "sw_info2"
    /\ LET info == get_module_fw_info(r1, r2)
       IN  /\ cdblog' = cdblog \o info.log
           /\ fw' = IF info.result # "tuple" THEN SwitchReturns(fw, "raise")
                    ELSE SwitchReturns([fw EXCEPT !.after = info.flags],
                                       IF SwitchDidNotHappen(fw.init, info.flags) THEN "False" ELSE "True")
    /\ UNCHANGED <<dpVars, cdb_supported, apiVars>>

-----------------------------------------------------------------------------
(* The module and the transport, as the driver sees them between two calls *)

NoCall == [name |-> "none", mask |-> 0, code |-> 0, ec |-> 0, inrow |-> 0]

BadLanes(dp, cfg) ==
    Cardinality({l \in LaneNums : dp[l] # "DataPathDeactivated"})
    + Cardinality({l \in LaneNums : cfg[l] # "ConfigSuccess"})

Forget ==
    /\ call' = NoCall
    /\ ret' = "None"
    /\ oplog' = <<>>
    /\ prev' = NoPrev
    /\ UNCHANGED <<cmis_major, datapath_deinit, apsel, apply_dpinit, fwVars, apiVars>>

(* lane `l` of the module changes its datapath state *)
ModuleDatapathState(l, v) ==
    /\ dp_state[l] # v
    /\ BadLanes([dp_state EXCEPT ![l] = v], config_status) <= MaxBadLanes
    /\ dp_state' = [dp_state EXCEPT ![l] = v]
    /\ UNCHANGED <<config_status, rfail, wfail>>
    /\ Forget

(* lane `l` of the module changes its configuration status *)
ModuleConfigStatus(l, v) ==
    /\ config_status[l] # v
    /\ BadLanes(dp_state, [config_status EXCEPT ![l] = v]) <= MaxBadLanes
    /\ config_status' = [config_status EXCEPT ![l] = v]
    /\ UNCHANGED <<dp_state, rfail, wfail>>
    /\ Forget

(* reads of field f start or stop failing *)
ReadFault(f) ==
    /\ rfail' = IF f \in rfail THEN rfail \ {f} ELSE rfail \cup {f}
    /\ UNCHANGED <<dp_state, config_status, wfail>>
    /\ Forget

(* writes of field f start or stop failing *)
WriteFault(f) ==
    /\ wfail' = IF f \in wfail THEN {} ELSE {f}
    /\ UNCHANGED <<dp_state, config_status, rfail>>
    /\ Forget

-----------------------------------------------------------------------------
(* The memoizing decorator and the predicates of the support gate *)

(* read_only_cached_api_return: the decorated method runs on the first call and
   the value it returned is kept for the life of the driver instance; c is the
   cache, r is [val, log] of running the method's body *)
Memo(c, name, r) ==
    IF c[name].set THEN [val |-> c[name].val, log |-> <<>>, cache |-> c]
    ELSE [val |-> r.val, log |-> r.log, cache |-> [c EXCEPT ![name] = [set |-> TRUE, val |-> r.val]]]

(* the same for a function that may return None: a None is handed on and not kept *)
MemoOpt(c, name, r) ==
    IF ~c[name].set /\ r.val = "None" THEN [val |-> "None", log |-> r.log, cache |-> c]
    ELSE Memo(c, name, r)

(* xcvr_eeprom.read(field): "None" when the read fails *)
Read(field, val) == IF field \in rfail THEN [Rd(field, "None") EXCEPT !.ok = FALSE] ELSE Rd(field, val)

(* self.xcvr_eeprom.read(consts.FLAT_MEM_FIELD) is not False *)
is_flat_memory(c) ==
    Memo(c, "is_flat_memory",
         [val |-> ("FLAT_MEM_FIELD" \in rfail) \/ module.flat_mem,
          log |-> <<Read("FLAT_MEM_FIELD", module.flat_mem)>>])

PowerClass1Eligible(power_class) == TRUE

(* "Power Class 1" not in power_class: the advertised classes are Power Class 1 .. 8 *)
PowerClassEligible(power_class) == power_class # "Power Class 1"

get_lpmode_support(c) ==
    Memo(c, "get_lpmode_support",
         [val |-> IF "POWER_CLASS_FIELD" \in rfail THEN FALSE ELSE PowerClassEligible(module.power_class),
          log |-> <<Read("POWER_CLASS_FIELD", module.power_class)>>])

(* float(duration) if duration is not None else 0, in milliseconds *)
Duration(c, name, field, val) ==
    LET flat == is_flat_memory(c)
    IN  Memo(flat.cache, name,
             IF flat.val THEN [val |-> 0, log |-> flat.log]
             ELSE [val |-> IF field \in rfail THEN 0 ELSE val,
                   log |-> Append(flat.log, Read(field, val))])

get_module_pwr_up_duration(c) ==
    Duration(c, "get_module_pwr_up_duration", "MODULE_PWRUP_DURATION", module.pwrup)

get_module_pwr_down_duration(c) ==
    Duration(c, "get_module_pwr_down_duration", "MODULE_PWRDN_DURATION", module.pwrdn)

-----------------------------------------------------------------------------
(* Low-power controller: get_lpmode, set_lpmode, wait_time_condition *)

LowPwrRequestSW == 4
LowPwrAllowRequestHW == 6
DelayRetryMs == 100                                  \* DELAY_RETRY = 0.1 seconds

(* is_flat_memory() or not get_lpmode_support(): [val, log, cache] *)
LpmodeUnsupported(c) ==
    LET flat == is_flat_memory(c)
        sup == get_lpmode_support(flat.cache)
    IN  IF flat.val THEN flat
        ELSE [val |-> ~sup.val, log |-> flat.log \o sup.log, cache |-> sup.cache]

(* get_module_state(): the value read, "None" when the read fails *)
get_module_state ==
    LET rd == Read("MODULE_STATE", module.state)
    IN  [val |-> rd.val, log |-> <<rd>>]

(* get_lpmode(): [val, log, cache], val "True" or "False" *)
get_lpmode(c) ==
    LET gate == LpmodeUnsupported(c)
        rd == Read("TRANS_MODULE_STATUS_FIELD", module.state)
    IN  IF gate.val THEN [val |-> "False", log |-> gate.log, cache |-> gate.cache]
        ELSE [val |-> IF rd.ok /\ rd.val = "ModuleLowPwr" THEN "True" ELSE "False",
              log |-> Append(gate.log, rd), cache |-> gate.cache]

(* lpmode_val | (1 << CmisApi.LowPwrRequestSW) *)
EnterLowPower(lpmode_val) == BitSet(lpmode_val, LowPwrRequestSW)

LeaveLowPowerSWOnly(lpmode_val) == BitClear(lpmode_val, LowPwrRequestSW)

(* lpmode_val & ~(1 << LowPwrRequestSW) & ~(1 << LowPwrAllowRequestHW) *)
LeaveLowPower(lpmode_val) == BitClear(BitClear(lpmode_val, LowPwrRequestSW), LowPwrAllowRequestHW)

WaitsAlways(wait_state_change) == TRUE

(* if wait_state_change: return self.wait_time_condition(...) else: return True *)
Waits(wait_state_change) == wait_state_change

LoopRunsPastDeadline(elapsed_ms, duration_ms) == elapsed_ms <= duration_ms

(* while (time.time() - start_time) < duration, both sides in milliseconds *)
LoopRuns(elapsed_ms, duration_ms) == elapsed_ms < duration_ms

(* condition_func() == expected_state, for the two uses of wait_time_condition *)
Condition(c, lpmode) ==
    IF lpmode
    THEN LET r == get_lpmode(c)
         IN  [hit |-> r.val = "True", log |-> r.log, cache |-> r.cache]
    ELSE LET r == get_module_state
         IN  [hit |-> r.val = "ModuleReady", log |-> r.log, cache |-> c]

LpIdle == [pc |-> "idle", lpmode |-> FALSE, wait |-> FALSE, duration |-> 0, elapsed |-> 0,
           polls |-> 0, hits |-> 0]

LpCall(name, lpmode, wait) == [name |-> name, lpmode |-> lpmode, wait |-> wait]

LpQuietVars == <<cmis_major, datapath_deinit, apsel, apply_dpinit, dp_state, config_status,
                 prev, fwVars, lb, out>>

(* set_lpmode(lpmode, wait_state_change) up to the start of the wait *)
SetLpmode(lpmode, wait_state_change) ==
    /\ lp.pc = "idle"
    /\ call' = LpCall("set_lpmode", lpmode, wait_state_change)
    /\ LET gate == LpmodeUnsupported(cache)
           rd == Read("MODULE_LEVEL_CONTROL", module.control)
           lpmode_val == IF lpmode THEN EnterLowPower(module.control) ELSE LeaveLowPower(module.control)
           wr == Wr("MODULE_LEVEL_CONTROL", lpmode_val)
           dur == IF lpmode THEN get_module_pwr_down_duration(gate.cache)
                  ELSE get_module_pwr_up_duration(gate.cache)
       IN  IF gate.val
           THEN /\ oplog' = gate.log
                /\ cache' = gate.cache
                /\ ret' = "False"
                /\ lp' = [LpIdle EXCEPT !.pc = "done"]
                /\ UNCHANGED module
           ELSE IF "MODULE_LEVEL_CONTROL" \in rfail
           THEN /\ oplog' = Append(gate.log, rd)
                /\ cache' = gate.cache
                /\ ret' = "False"
                /\ lp' = [LpIdle EXCEPT !.pc = "done"]
                /\ UNCHANGED module
           ELSE /\ module' = [module EXCEPT !.control = Written("MODULE_LEVEL_CONTROL", @, lpmode_val)]
                /\ IF Waits(wait_state_change)
                   THEN /\ oplog' = gate.log \o <<rd, wr>> \o dur.log
                        /\ cache' = dur.cache
                        /\ ret' = "None"
                        /\ lp' = [LpIdle EXCEPT !.pc = "poll", !.lpmode = lpmode,
                                                !.wait = wait_state_change, !.duration = dur.val]
                   ELSE /\ oplog' = gate.log \o <<rd, wr>>
                        /\ cache' = gate.cache
                        /\ ret' = "True"
                        /\ lp' = [LpIdle EXCEPT !.pc = "done", !.lpmode = lpmode]
    /\ UNCHANGED <<LpQuietVars, rfail, wfail>>

(* one iteration of wait_time_condition's loop; the check and time.sleep(delay_retry)
   take sleep_ms >= 100 milliseconds together *)
LpPoll(sleep_ms) ==
    /\ lp.pc = "poll"
    /\ LoopRuns(lp.elapsed, lp.duration)
    /\ LET cond == Condition(cache, lp.lpmode)
       IN  /\ oplog' = oplog \o cond.log
           /\ cache' = cond.cache
           /\ IF cond.hit
              THEN /\ ret' = "True"
                   /\ lp' = [lp EXCEPT !.pc = "done", !.polls = @ + 1, !.hits = @ + 1]
              ELSE /\ ret' = ret
                   /\ lp' = [lp EXCEPT !.polls = @ + 1, !.elapsed = @ + sleep_ms]
    /\ UNCHANGED <<LpQuietVars, rfail, wfail, call, module>>

(* return condition_func() == expected_state, once the duration has elapsed *)
LpFinalCheck ==
    /\ lp.pc = "poll"
    /\ ~LoopRuns(lp.elapsed, lp.duration)
    /\ LET cond == Condition(cache, lp.lpmode)
       IN  /\ oplog' = oplog \o cond.log
           /\ cache' = cond.cache
           /\ ret' = IF cond.hit THEN "True" ELSE "False"
           /\ lp' = [lp EXCEPT !.pc = "final", !.polls = @ + 1, !.hits = IF cond.hit THEN @ + 1 ELSE @]
    /\ UNCHANGED <<LpQuietVars, rfail, wfail, call, module>>

GetLpmode ==
    /\ lp.pc = "idle"
    /\ LET r == get_lpmode(cache)
       IN  /\ oplog' = r.log
           /\ cache' = r.cache
           /\ ret' = r.val
    /\ call' = LpCall("get_lpmode", FALSE, FALSE)
    /\ lp' = [LpIdle EXCEPT !.pc = "done"]
    /\ UNCHANGED <<LpQuietVars, rfail, wfail, module>>

(* the caller takes the result *)
LpReturn ==
    /\ lp.pc \in {"done", "final"}
    /\ lp' = LpIdle
    /\ call' = NoCall
    /\ ret' = "None"
    /\ oplog' = <<>>
    /\ UNCHANGED <<LpQuietVars, rfail, wfail, module, cache>>

(* the module moves to another state of its module state machine *)
ModuleStateChange(v) ==
    /\ module.state # v
    /\ module' = [module EXCEPT !.state = v]
    /\ UNCHANGED <<dpVars, fwVars, cache, lp, lb, out>>

(* reads of field f start or stop failing, also while a call polls *)
TransportReadFault(f) ==
    /\ rfail' = IF f \in rfail THEN rfail \ {f} ELSE rfail \cup {f}
    /\ UNCHANGED <<LpQuietVars, wfail, call, ret, oplog, apiVars>>

-----------------------------------------------------------------------------
(* Loopback controller *)

RECURSIVE BitAndNot(_, _)
BitAndNot(a, m) ==                                          \* a & ~m
    IF a = 0 THEN 0
    ELSE (IF (a % 2 = 1) /\ (m % 2 = 0) THEN 1 ELSE 0) + 2 * BitAndNot(a \div 2, m \div 2)

(* the four loopback control registers of the module *)
Loopbacks ==
    [HOST_INPUT_LOOPBACK |-> module.host_input, HOST_OUTPUT_LOOPBACK |-> module.host_output,
     MEDIA_INPUT_LOOPBACK |-> module.media_input, MEDIA_OUTPUT_LOOPBACK |-> module.media_output]

(* get_loopback_capability(): ok is FALSE for the None result, bits is the byte read *)
get_loopback_capability ==
    IF cache.is_flat_memory.val THEN [ok |-> FALSE, bits |-> 0, log |-> <<>>]
    ELSE [ok |-> "LOOPBACK_CAPABILITY" \notin rfail, bits |-> module.loopback_capability,
          log |-> <<Read("LOOPBACK_CAPABILITY", module.loopback_capability)>>]

(* the bit of the capability byte behind each key of the dict *)
CapabilityBit ==
    [simultaneous_host_media_loopback_supported |-> 6,
     per_lane_media_loopback_supported |-> 5,
     per_lane_host_loopback_supported |-> 4,
     host_side_input_loopback_supported |-> 3,
     host_side_output_loopback_supported |-> 2,
     media_side_input_loopback_supported |-> 1,
     media_side_output_loopback_supported |-> 0]

Supported(bits, key) == BitAt(bits, CapabilityBit[key]) = 1

PerLaneRefusedNever(per_lane, lane_mask) == FALSE

(* loopback_capability['per_lane_..._supported'] is False and lane_mask != 0xff *)
PerLaneRefused(per_lane, lane_mask) == ~per_lane /\ lane_mask # AllLanes

TruthyAllLanes(L, f) == f \notin rfail /\ L[f] = AllLanes

(* `a or b` of two register reads is truthy: a read that failed gives None *)
Truthy(L, f) == f \notin rfail /\ L[f] # 0

(* the body shared by the four setters: own is the register set, direction and
   per_lane the capability keys consulted, opp1 and opp2 the registers of the
   opposite side.  The f-string of the refusal raises TypeError on a None value;
   so do `None | lane_mask` and `None & ~lane_mask`. *)
SetLoopback(L, own, direction, per_lane, opp1, opp2, lane_mask, enable) ==
    LET cap == get_loopback_capability
        opp == <<Read(opp1, L[opp1]), Read(opp2, L[opp2])>>
        simul == Supported(cap.bits, "simultaneous_host_media_loopback_supported")
        log1 == IF simul THEN cap.log ELSE cap.log \o opp
        val == IF enable THEN BitOr(L[own], lane_mask) ELSE BitAndNot(L[own], lane_mask)
    IN  IF ~cap.ok THEN [regs |-> L, log |-> cap.log, ret |-> "False"]
        ELSE IF ~Supported(cap.bits, direction) THEN [regs |-> L, log |-> cap.log, ret |-> "False"]
        ELSE IF PerLaneRefused(Supported(cap.bits, per_lane), lane_mask)
        THEN [regs |-> L, log |-> cap.log, ret |-> "False"]
        ELSE IF ~simul /\ (Truthy(L, opp1) \/ Truthy(L, opp2))
        THEN [regs |-> L, log |-> log1,
              ret |-> IF opp1 \in rfail \/ opp2 \in rfail THEN "raise" ELSE "False"]
        ELSE IF own \in rfail
        THEN [regs |-> L, log |-> Append(log1, Read(own, L[own])), ret |-> "raise"]
        ELSE [regs |-> [L EXCEPT ![own] = Written(own, @, val)],
              log  |-> log1 \o <<Read(own, L[own]), Wr(own, val)>>,
              ret  |-> IF own \in wfail THEN "False" ELSE "True"]

set_host_input_loopback(L, lane_mask, enable) ==
    SetLoopback(L, "HOST_INPUT_LOOPBACK", "host_side_input_loopback_supported",
                "per_lane_host_loopback_supported", "MEDIA_INPUT_LOOPBACK", "MEDIA_OUTPUT_LOOPBACK",
                lane_mask, enable)

set_host_output_loopback(L, lane_mask, enable) ==
    SetLoopback(L, "HOST_OUTPUT_LOOPBACK", "host_side_output_loopback_supported",
                "per_lane_host_loopback_supported", "MEDIA_INPUT_LOOPBACK", "MEDIA_OUTPUT_LOOPBACK",
                lane_mask, enable)

set_media_input_loopback(L, lane_mask, enable) ==
    SetLoopback(L, "MEDIA_INPUT_LOOPBACK", "media_side_input_loopback_supported",
                "per_lane_media_loopback_supported", "HOST_INPUT_LOOPBACK", "HOST_OUTPUT_LOOPBACK",
                lane_mask, enable)

set_media_output_loopback(L, lane_mask, enable) ==
    SetLoopback(L, "MEDIA_OUTPUT_LOOPBACK", "media_side_output_loopback_supported",
                "per_lane_media_loopback_supported", "HOST_INPUT_LOOPBACK", "HOST_OUTPUT_LOOPBACK",
                lane_mask, enable)

LoopbackModes == {"host-side-input", "host-side-output", "media-side-input", "media-side-output"}

(* loopback_functions.get(loopback_mode)(lane_mask, enable) *)
LoopbackFunction(L, loopback_mode, lane_mask, enable) ==
    CASE loopback_mode = "host-side-input" -> set_host_input_loopback(L, lane_mask, enable)
      [] loopback_mode = "host-side-output" -> set_host_output_loopback(L, lane_mask, enable)
      [] loopback_mode = "media-side-input" -> set_media_input_loopback(L, lane_mask, enable)
      [] loopback_mode = "media-side-output" -> set_media_output_loopback(L, lane_mask, enable)

(* all([...]) of a list of booleans *)
AllOf(results) == IF \A i \in 1 .. Len(results) : results[i] = "True" THEN "True" ELSE "False"

(* the list of set_loopback_mode('none') is built left to right from `modes`; an
   exception in one setter ends the call.  acc is [regs, log, ret, results]. *)
RECURSIVE ClearLoop(_, _)
ClearLoop(modes, acc) ==
    IF modes = <<>> THEN [acc EXCEPT !.ret = AllOf(acc.results)]
    ELSE LET r == LoopbackFunction(acc.regs, Head(modes), AllLanes, FALSE)
             next == [regs |-> r.regs, log |-> acc.log \o r.log, ret |-> r.ret,
                      results |-> Append(acc.results, r.ret)]
         IN  IF r.ret = "raise" THEN next ELSE ClearLoop(Tail(modes), next)

set_loopback_mode(L, loopback_mode, lane_mask, enable) ==
    IF loopback_mode = "none"
    THEN ClearLoop(<<"host-side-input", "host-side-output", "media-side-input", "media-side-output">>,
                   [regs |-> L, log |-> <<>>, ret |-> "None", results |-> <<>>])
    ELSE IF loopback_mode \in LoopbackModes
    THEN LET r == LoopbackFunction(L, loopback_mode, lane_mask, enable)
         IN  [regs |-> r.regs, log |-> r.log, ret |-> r.ret, results |-> <<r.ret>>]
    ELSE [regs |-> L, log |-> <<>>, ret |-> "False", results |-> <<>>]

LbCall(name, mode, lane_mask, enable) ==
    [name |-> name, mode |-> mode, mask |-> lane_mask, enable |-> enable]

LbIdle == [pre |-> [HOST_INPUT_LOOPBACK |-> 0, HOST_OUTPUT_LOOPBACK |-> 0,
                    MEDIA_INPUT_LOOPBACK |-> 0, MEDIA_OUTPUT_LOOPBACK |-> 0],
           results |-> <<>>]

LbQuietVars == <<cmis_major, datapath_deinit, apsel, apply_dpinit, dp_state, config_status,
                 prev, fwVars, rfail, wfail, cache, lp, out>>

(* the call's effect on the module; lb keeps the registers as they were before
   the call and the results of the setters it invoked *)
LbEffect(r, c) ==
    /\ module' = [module EXCEPT !.host_input = r.regs.HOST_INPUT_LOOPBACK,
                                !.host_output = r.regs.HOST_OUTPUT_LOOPBACK,
                                !.media_input = r.regs.MEDIA_INPUT_LOOPBACK,
                                !.media_output = r.regs.MEDIA_OUTPUT_LOOPBACK]
    /\ oplog' = r.log
    /\ ret' = r.ret
    /\ call' = c
    /\ lb' = [pre |-> Loopbacks, results |-> r.results]
    /\ UNCHANGED LbQuietVars

(* one of the four setters, called directly *)
SetOneLoopback(loopback_mode, lane_mask, enable) ==
    LET r == LoopbackFunction(Loopbacks, loopback_mode, lane_mask, enable)
    IN  LbEffect([regs |-> r.regs, log |-> r.log, ret |-> r.ret, results |-> <<r.ret>>],
                 LbCall("set_loopback", loopback_mode, lane_mask, enable))

SetLoopbackMode(loopback_mode, lane_mask, enable) ==
    LbEffect(set_loopback_mode(Loopbacks, loopback_mode, lane_mask, enable),
             LbCall("set_loopback_mode", loopback_mode, lane_mask, enable))

(* the module's loopback register f is set from elsewhere (another agent, a reset) *)
ModuleLoopback(f, v) ==
    /\ Loopbacks[f] # v
    /\ module' = CASE f = "HOST_INPUT_LOOPBACK" -> [module EXCEPT !.host_input = v]
                   [] f = "HOST_OUTPUT_LOOPBACK" -> [module EXCEPT !.host_output = v]
                   [] f = "MEDIA_INPUT_LOOPBACK" -> [module EXCEPT !.media_input = v]
                   [] f = "MEDIA_OUTPUT_LOOPBACK" -> [module EXCEPT !.media_output = v]
    /\ call' = NoCall
    /\ ret' = "None"
    /\ oplog' = <<>>
    /\ lb' = LbIdle
    /\ UNCHANGED LbQuietVars

-----------------------------------------------------------------------------
(* VDM telemetry aggregator *)

(* CMIS_VDM_KEY_TO_DB_PREFIX_KEY_MAP, in the order of its items() *)
CMIS_VDM_KEY_TO_DB_PREFIX_KEY_MAP ==
    << <<"Laser Temperature [C]", "laser_temperature_media">>,
       <<"eSNR Media Input [dB]", "esnr_media_input">>,
       <<"PAM4 Level Transition Parameter Media Input [dB]", "pam4_level_transition_media_input">>,
       <<"Pre-FEC BER Minimum Media Input", "prefec_ber_min_media_input">>,
       <<"Pre-FEC BER Maximum Media Input", "prefec_ber_max_media_input">>,
       <<"Pre-FEC BER Average Media Input", "prefec_ber_avg_media_input">>,
       <<"Pre-FEC BER Current Value Media Input", "prefec_ber_curr_media_input">>,
       <<"Errored Frames Minimum Media Input", "errored_frames_min_media_input">>,
       <<"Errored Frames Maximum Media Input", "errored_frames_max_media_input">>,
       <<"Errored Frames Average Media Input", "errored_frames_avg_media_input">>,
       <<"Errored Frames Current Value Media Input", "errored_frames_curr_media_input">>,
       <<"eSNR Host Input [dB]", "esnr_host_input">>,
       <<"PAM4 Level Transition Parameter Host Input [dB]", "pam4_level_transition_host_input">>,
       <<"Pre-FEC BER Minimum Host Input", "prefec_ber_min_host_input">>,
       <<"Pre-FEC BER Maximum Host Input", "prefec_ber_max_host_input">>,
       <<"Pre-FEC BER Average Host Input", "prefec_ber_avg_host_input">>,
       <<"Pre-FEC BER Current Value Host Input", "prefec_ber_curr_host_input">>,
       <<"Errored Frames Minimum Host Input", "errored_frames_min_host_input">>,
       <<"Errored Frames Maximum Host Input", "errored_frames_max_host_input">>,
       <<"Errored Frames Average Host Input", "errored_frames_avg_host_input">>,
       <<"Errored Frames Current Value Host Input", "errored_frames_curr_host_input">> >>

(* VdmSubtypeIndex values, THRESHOLD_TYPE_STR_MAP and FLAG_TYPE_STR_MAP *)
VDM_SUBTYPE_REAL_VALUE == 0
THRESHOLD_TYPE_STR_MAP == [i \in 1 .. 4 |-> <<"halarm", "lalarm", "hwarn", "lwarn">>[i]]
FLAG_TYPE_STR_MAP == [i \in 5 .. 8 |-> <<"halarm", "lalarm", "hwarn", "lwarn">>[i - 4]]

(* a Python dict as a function; d[k] = v *)
EmptyDict == [k \in {} |-> "N/A"]
DictSet(d, k, v) == (k :> v) @@ d

(* vdm_raw_dict[vdm_observable_type][lane][index]: the value, or the exception
   it raises.  A raw value is tagged "none" (None), "scalar" (a number), "map"
   (a dict, field at) or "seq" (a list, field items). *)
VdmLookup(vdm_raw_dict, vdm_observable_type, lane, index) ==
    LET exc(e) == [exc |-> e, val |-> "N/A"]
    IN  IF vdm_raw_dict.tag # "map" THEN exc("TypeError")
        ELSE IF vdm_observable_type \notin DOMAIN vdm_raw_dict.at THEN exc("KeyError")
        ELSE LET obs == vdm_raw_dict.at[vdm_observable_type]
             IN  IF obs.tag # "map" THEN exc("TypeError")
                 ELSE IF lane \notin DOMAIN obs.at THEN exc("KeyError")
                 ELSE LET entry == obs.at[lane]
                      IN  IF entry.tag # "seq" THEN exc("TypeError")
                          ELSE IF index + 1 > Len(entry.items) THEN exc("IndexError")
                          ELSE [exc |-> "none", val |-> entry.items[index + 1]]

(* except (KeyError, TypeError) *)
Caught == {"KeyError", "TypeError"}

(* _update_vdm_dict: [dict, exc]; an exception that is not caught leaves the dict as it is *)
UpdateVdmDict(dict_to_update, new_key, vdm_raw_dict, vdm_observable_type, index, lane) ==
    LET r == VdmLookup(vdm_raw_dict, vdm_observable_type, lane, index)
    IN  IF r.exc = "none" THEN [dict |-> DictSet(dict_to_update, new_key, r.val), exc |-> "none"]
        ELSE IF r.exc \in Caught THEN [dict |-> DictSet(dict_to_update, new_key, "N/A"), exc |-> "none"]
        ELSE [dict |-> dict_to_update, exc |-> r.exc]

(* one call of _update_vdm_dict inside the loops; acc is [kind, exc, dict] and an
   exception that was not caught ends the getter *)
VdmStep(acc, new_key, vdm_raw_dict, vdm_observable_type, index, lane) ==
    IF acc.kind = "raise" THEN acc
    ELSE LET r == UpdateVdmDict(acc.dict, new_key, vdm_raw_dict, vdm_observable_type, index, lane)
         IN  IF r.exc # "none" THEN [kind |-> "raise", exc |-> r.exc, dict |-> EmptyDict]
             ELSE [kind |-> "dict", exc |-> "none", dict |-> r.dict]

(* for lane in range(1, self.NUM_CHANNELS + 1), e an item of the prefix table *)
RECURSIVE RealLaneLoop(_, _, _, _)
RealLaneLoop(e, lane, vdm_raw_dict, acc) ==
    IF lane > NUM_CHANNELS \/ acc.kind = "raise" THEN acc
    ELSE RealLaneLoop(e, lane + 1, vdm_raw_dict,
                      VdmStep(acc, e[2] \o ToString(lane), vdm_raw_dict, e[1], VDM_SUBTYPE_REAL_VALUE, lane))

RECURSIVE RealObsLoop(_, _, _)
RealObsLoop(n, vdm_raw_dict, acc) ==
    IF n > Len(CMIS_VDM_KEY_TO_DB_PREFIX_KEY_MAP) \/ acc.kind = "raise" THEN acc
    ELSE RealObsLoop(n + 1, vdm_raw_dict,
                     RealLaneLoop(CMIS_VDM_KEY_TO_DB_PREFIX_KEY_MAP[n], 1, vdm_raw_dict, acc))

(* for vdm_threshold_type in range(first, last + 1), over the keys of type_str_map *)
RECURSIVE BoundTypeLoop(_, _, _, _, _, _)
BoundTypeLoop(e, lane, index, type_str_map, vdm_raw_dict, acc) ==
    IF index \notin DOMAIN type_str_map \/ acc.kind = "raise" THEN acc
    ELSE BoundTypeLoop(e, lane, index + 1, type_str_map, vdm_raw_dict,
                       VdmStep(acc, e[2] \o "_" \o type_str_map[index] \o ToString(lane),
                               vdm_raw_dict, e[1], index, lane))

RECURSIVE BoundLaneLoop(_, _, _, _, _, _)
BoundLaneLoop(e, lane, first, type_str_map, vdm_raw_dict, acc) ==
    IF lane > NUM_CHANNELS \/ acc.kind = "raise" THEN acc
    ELSE BoundLaneLoop(e, lane + 1, first, type_str_map, vdm_raw_dict,
                       BoundTypeLoop(e, lane, first, type_str_map, vdm_raw_dict, acc))

RECURSIVE BoundObsLoop(_, _, _, _, _)
BoundObsLoop(n, first, type_str_map, vdm_raw_dict, acc) ==
    IF n > Len(CMIS_VDM_KEY_TO_DB_PREFIX_KEY_MAP) \/ acc.kind = "raise" THEN acc
    ELSE BoundObsLoop(n + 1, first, type_str_map, vdm_raw_dict,
                      BoundLaneLoop(CMIS_VDM_KEY_TO_DB_PREFIX_KEY_MAP[n], 1, first, type_str_map,
                                    vdm_raw_dict, acc))

NoDict == [kind |-> "dict", exc |-> "none", dict |-> EmptyDict]

(* self.vdm is None on a flat-memory module: self.vdm.VDM_REAL_VALUE raises AttributeError *)
VdmUnavailable == [kind |-> "raise", exc |-> "AttributeError", dict |-> EmptyDict]

get_transceiver_vdm_real_value(vdm_raw_dict) ==
    IF cache.is_flat_memory.val THEN VdmUnavailable ELSE RealObsLoop(1, vdm_raw_dict, NoDict)

get_transceiver_vdm_thresholds(vdm_raw_dict) ==
    IF cache.is_flat_memory.val THEN VdmUnavailable
    ELSE BoundObsLoop(1, 1, THRESHOLD_TYPE_STR_MAP, vdm_raw_dict, NoDict)

get_transceiver_vdm_flags(vdm_raw_dict) ==
    IF cache.is_flat_memory.val THEN VdmUnavailable
    ELSE BoundObsLoop(1, 5, FLAG_TYPE_STR_MAP, vdm_raw_dict, NoDict)

NoOut == [kind |-> "none", exc |-> "none", dict |-> EmptyDict]

GetterCall(name, arg) == [name |-> name, arg |-> arg]

GetterQuietVars == <<cmis_major, datapath_deinit, apsel, apply_dpinit, dp_state, config_status,
                     prev, fwVars, rfail, wfail, module, lp, lb>>

(* a getter of an aggregate, called with what the collaborator returns *)
Getter(name, arg, r, log) ==
    /\ call' = GetterCall(name, arg)
    /\ out' = r
    /\ ret' = r.kind
    /\ oplog' = log
    /\ UNCHANGED <<GetterQuietVars, cache>>

GetTransceiverVdmRealValue(vdm_raw_dict) ==
    Getter("get_transceiver_vdm_real_value", vdm_raw_dict,
           get_transceiver_vdm_real_value(vdm_raw_dict), <<>>)

GetTransceiverVdmThresholds(vdm_raw_dict) ==
    Getter("get_transceiver_vdm_thresholds", vdm_raw_dict,
           get_transceiver_vdm_thresholds(vdm_raw_dict), <<>>)

GetTransceiverVdmFlags(vdm_raw_dict) ==
    Getter("get_transceiver_vdm_flags", vdm_raw_dict,
           get_transceiver_vdm_flags(vdm_raw_dict), <<>>)

-----------------------------------------------------------------------------
(* Transceiver information *)

(* what the module holds in the fields get_transceiver_info reads; numbers are
   written as str() prints them *)
EepromInfo ==
    [ADMIN_INFO_FIELD |-> "admin", HW_MAJOR_REV |-> "1", HW_MINOR_REV |-> "2",
     APPLS_ADVT_FIELD |-> "advt", APPLS_ADVT_FIELD_PAGE01 |-> "advt01",
     MEDIA_TYPE_FIELD |-> "sm_media_interface", HOST_ELECTRICAL_INTERFACE |-> "400GAUI-8 C2M (Annex 120E)",
     MODULE_MEDIA_INTERFACE_SM |-> "400GBASE-DR4 (Cl 124)", HOST_LANE_COUNT |-> "8",
     MEDIA_INTERFACE_TECH |-> "1550 nm DFB", VENDOR_REV_FIELD |-> "A1",
     CMIS_MAJOR_REVISION |-> "5", CMIS_MINOR_REVISION |-> "0", VDM_SUPPORTED |-> "True",
     ACTIVE_APSEL_CODE |-> "1"]

InfoFields == DOMAIN EepromInfo

(* one read of a field: [val, log] *)
InfoRead(field) ==
    [val |-> IF field \in rfail THEN "None" ELSE EepromInfo[field],
     log |-> <<Read(field, EepromInfo[field])>>]

(* '.'.join([str(major), str(minor)]) *)
JoinRev(major, minor) == major \o "." \o minor

get_module_hardware_revision(c) ==
    LET flat == is_flat_memory(c)
        hw_major_rev == InfoRead("HW_MAJOR_REV")
        hw_minor_rev == InfoRead("HW_MINOR_REV")
    IN  MemoOpt(flat.cache, "get_module_hardware_revision",
                IF flat.val THEN [val |-> "0.0", log |-> flat.log]
                ELSE [val |-> JoinRev(hw_major_rev.val, hw_minor_rev.val),
                      log |-> flat.log \o hw_major_rev.log \o hw_minor_rev.log])

get_cmis_rev(c) ==
    LET cmis_major_rev == InfoRead("CMIS_MAJOR_REVISION")
        cmis_minor_rev == InfoRead("CMIS_MINOR_REVISION")
    IN  MemoOpt(c, "get_cmis_rev",
                [val |-> JoinRev(cmis_major_rev.val, cmis_minor_rev.val),
                 log |-> cmis_major_rev.log \o cmis_minor_rev.log])

get_vendor_rev(c) == MemoOpt(c, "get_vendor_rev", InfoRead("VENDOR_REV_FIELD"))

(* the advertisement of a module that advertises application 1: "{1}", or "{}"
   when a read fails (the dict is empty, never None) *)
get_application_advertisement(c) ==
    LET dic == InfoRead("APPLS_ADVT_FIELD")
        flat == is_flat_memory(c)
        page01 == InfoRead("APPLS_ADVT_FIELD_PAGE01")
        media_type == InfoRead("MEDIA_TYPE_FIELD")
    IN  MemoOpt(flat.cache, "get_application_advertisement",
                IF dic.val = "None" THEN [val |-> "{}", log |-> dic.log]
                ELSE IF ~flat.val /\ page01.val = "None"
                     THEN [val |-> "{}", log |-> dic.log \o flat.log \o page01.log]
                ELSE [val |-> IF media_type.val = "None" THEN "{}" ELSE "{1}",
                      log |-> dic.log \o flat.log \o (IF flat.val THEN <<>> ELSE page01.log)
                                 \o media_type.log])

get_module_media_type == InfoRead("MEDIA_TYPE_FIELD")

get_host_electrical_interface(c) ==
    LET flat == is_flat_memory(c)
        r == InfoRead("HOST_ELECTRICAL_INTERFACE")
    IN  IF flat.val THEN [val |-> "N/A", log |-> flat.log]
        ELSE [val |-> r.val, log |-> flat.log \o r.log]

get_module_media_interface ==
    LET media_type == get_module_media_type
        r == InfoRead("MODULE_MEDIA_INTERFACE_SM")
    IN  IF media_type.val = "sm_media_interface"
        THEN [val |-> r.val, log |-> media_type.log \o r.log]
        ELSE [val |-> "Unknown media interface", log |-> media_type.log]

get_host_lane_count == InfoRead("HOST_LANE_COUNT")

(* appl = 1 *)
get_media_lane_count(c) ==
    LET flat == is_flat_memory(c)
        appl_advt == get_application_advertisement(flat.cache)
    IN  IF flat.val THEN [val |-> "0", log |-> flat.log, cache |-> flat.cache]
        ELSE [val |-> IF appl_advt.val = "{1}" THEN "4" ELSE "0",
              log |-> flat.log \o appl_advt.log, cache |-> appl_advt.cache]

get_media_interface_technology == InfoRead("MEDIA_INTERFACE_TECH")

get_host_lane_assignment_option(c) ==
    LET appl_advt == get_application_advertisement(c)
    IN  [val |-> IF appl_advt.val = "{1}" THEN "1" ELSE "0",
         log |-> appl_advt.log, cache |-> appl_advt.cache]

get_media_lane_assignment_option(c) ==
    LET flat == is_flat_memory(c)
        appl_advt == get_application_advertisement(flat.cache)
    IN  IF flat.val THEN [val |-> "N/A", log |-> flat.log, cache |-> flat.cache]
        ELSE [val |-> IF appl_advt.val = "{1}" THEN "1" ELSE "0",
              log |-> flat.log \o appl_advt.log, cache |-> appl_advt.cache]

(* self.vdm is not None and self.xcvr_eeprom.read(consts.VDM_SUPPORTED) *)
is_transceiver_vdm_supported(c) ==
    LET r == InfoRead("VDM_SUPPORTED")
    IN  IF c.is_flat_memory.val THEN [val |-> "False", log |-> <<>>] ELSE r

(* the code of every host lane, 'N/A' for every lane when the read fails *)
get_active_apsel_hostlane(c) ==
    LET flat == is_flat_memory(c)
        active_apsel_code == InfoRead("ACTIVE_APSEL_CODE")
    IN  IF flat.val THEN [val |-> "N/A", log |-> flat.log]
        ELSE [val |-> IF active_apsel_code.val = "None" THEN "N/A" ELSE active_apsel_code.val,
              log |-> flat.log \o active_apsel_code.log]

CMIS_XCVR_INFO_DEFAULT_DICT ==
    [k \in {"type", "type_abbrv_name", "hardware_rev", "serial", "manufacturer", "model",
            "connector", "encoding", "ext_identifier", "ext_rateselect_compliance", "cable_length",
            "nominal_bit_rate", "vendor_date", "vendor_oui", "application_advertisement",
            "host_electrical_interface", "media_interface_code", "host_lane_count",
            "media_lane_count", "host_lane_assignment_option", "media_lane_assignment_option",
            "cable_type", "media_interface_technology", "vendor_rev", "cmis_rev",
            "specification_compliance", "vdm_supported"}
           \cup {"active_apsel_hostlane" \o ToString(i) : i \in LaneNums} |-> "N/A"]

(* str(self.get_application_advertisement()) if len(self.get_application_advertisement()) > 0 else 'N/A' *)
application_advertisement(c) ==
    LET advt1 == get_application_advertisement(c)
        advt2 == get_application_advertisement(advt1.cache)
    IN  IF advt1.val = "{}" THEN [val |-> "N/A", log |-> advt1.log, cache |-> advt1.cache]
        ELSE [val |-> advt2.val, log |-> advt1.log \o advt2.log, cache |-> advt2.cache]

(* the entries of the update that come from a getter, in the order of the dict literal *)
InfoGetters ==
    <<"hardware_rev", "application_advertisement", "host_electrical_interface",
      "media_interface_code", "host_lane_count", "media_lane_count",
      "host_lane_assignment_option", "media_lane_assignment_option",
      "media_interface_technology", "vendor_rev", "cmis_rev", "specification_compliance",
      "vdm_supported", "active_apsel_hostlane">>

WithCache(r, c) == [val |-> r.val, log |-> r.log, cache |-> c]

InfoGetter(key, c) ==
    CASE key = "hardware_rev" -> get_module_hardware_revision(c)
      [] key = "application_advertisement" -> application_advertisement(c)
      [] key = "host_electrical_interface" -> WithCache(get_host_electrical_interface(c), c)
      [] key = "media_interface_code" -> WithCache(get_module_media_interface, c)
      [] key = "host_lane_count" -> WithCache(get_host_lane_count, c)
      [] key = "media_lane_count" -> get_media_lane_count(c)
      [] key = "host_lane_assignment_option" -> get_host_lane_assignment_option(c)
      [] key = "media_lane_assignment_option" -> get_media_lane_assignment_option(c)
      [] key = "media_interface_technology" -> WithCache(get_media_interface_technology, c)
      [] key = "vendor_rev" -> get_vendor_rev(c)
      [] key = "cmis_rev" -> get_cmis_rev(c)
      [] key = "specification_compliance" -> WithCache(get_module_media_type, c)
      [] key = "vdm_supported" -> WithCache(is_transceiver_vdm_supported(c), c)
      [] key = "active_apsel_hostlane" -> WithCache(get_active_apsel_hostlane(c), c)

(* one getter of the update: acc is [vals, log, cache] *)
InfoStep(acc, key, r) ==
    [vals |-> (key :> r.val) @@ acc.vals, log |-> acc.log \o r.log, cache |-> r.cache]

(* the getters run in order: the next one is the first whose entry is not yet filled *)
RECURSIVE InfoLoop(_)
InfoLoop(acc) ==
    LET n == Cardinality(DOMAIN acc.vals) + 1
    IN  IF n > Len(InfoGetters) THEN acc
        ELSE InfoLoop(InfoStep(acc, InfoGetters[n], InfoGetter(InfoGetters[n], acc.cache)))

(* the entries of the update that come from admin_info *)
AdminInfo ==
    [type |-> "QSFP-DD Double Density 8X Pluggable Transceiver", type_abbrv_name |-> "QSFP-DD",
     serial |-> "SN0001", manufacturer |-> "VENDOR", model |-> "PN0001", connector |-> "LC",
     ext_identifier |-> "Power Class 8 (14.0W Max)", cable_length |-> "0.0",
     vendor_date |-> "2026-01-01", vendor_oui |-> "00-00-00",
     cable_type |-> "Length Cable Assembly(m)"]

InfoDict(vals) ==
    [k \in DOMAIN CMIS_XCVR_INFO_DEFAULT_DICT |->
        IF k \in DOMAIN AdminInfo THEN AdminInfo[k]
        ELSE IF k \in DOMAIN vals THEN vals[k]
        ELSE IF k \in {"active_apsel_hostlane" \o ToString(i) : i \in LaneNums}
             THEN vals["active_apsel_hostlane"]
        ELSE CMIS_XCVR_INFO_DEFAULT_DICT[k]]

NoneOut == [kind |-> "None", exc |-> "none", dict |-> EmptyDict]

(* if None in xcvr_info.values(): return None *)
InfoResult(acc, xcvr_info) ==
    [out |-> IF \E k \in DOMAIN xcvr_info : xcvr_info[k] = "None" THEN NoneOut
             ELSE [kind |-> "dict", exc |-> "none", dict |-> xcvr_info],
     log |-> acc.log, cache |-> acc.cache]

(* get_transceiver_info: [out, log, cache] *)
get_transceiver_info(c) ==
    IF "ADMIN_INFO_FIELD" \in rfail
    THEN [out |-> NoneOut, log |-> InfoRead("ADMIN_INFO_FIELD").log, cache |-> c]
    ELSE InfoResult(InfoLoop([vals |-> EmptyDict, log |-> InfoRead("ADMIN_INFO_FIELD").log, cache |-> c]),
                    InfoDict(InfoLoop([vals |-> EmptyDict, log |-> <<>>, cache |-> c]).vals))

InfoEffect(r) ==
    /\ call' = GetterCall("get_transceiver_info", "")
    /\ out' = r.out
    /\ ret' = r.out.kind
    /\ oplog' = r.log
    /\ cache' = r.cache
    /\ UNCHANGED GetterQuietVars

GetTransceiverInfo == InfoEffect(get_transceiver_info(cache))

-----------------------------------------------------------------------------
(* Per-lane monitors and flags *)

(* an element of a per-lane list: 'N/A' or a value *)
NA == [na |-> TRUE]
Val(v) == [na |-> FALSE, v |-> v]

(* ["N/A" for _ in range(self.NUM_CHANNELS)] *)
NaList == [i \in LaneNums |-> NA]

(* what the module holds on each lane of a monitor, and in each flag byte *)
LaneValue(field, lane) ==
    CASE field = "TX_BIAS_FIELD" -> 10 + lane
      [] field = "TX_POWER_FIELD" -> 100 + lane
      [] field = "RX_POWER_FIELD" -> 200 + lane

LaneBits(field) ==
    CASE field = "TX_FAULT_FIELD" -> 1
      [] field = "RX_LOS_FIELD" -> 128
      [] field = "TX_DISABLE_FIELD" -> 15

(* not self.is_flat_memory() and self.xcvr_eeprom.read(field): "True", "False"
   or "None", with the reads made *)
PageSupport(c, field) ==
    IF c.is_flat_memory.val THEN [val |-> "False", log |-> <<>>]
    ELSE [val |-> IF field \in rfail THEN "None"
                  ELSE IF field \in module.support THEN "True" ELSE "False",
          log |-> <<Read(field, field \in module.support)>>]

LaneList(list) == [kind |-> "list", exc |-> "none", dict |-> list]

(* a getter's result with the reads it made: [out, log] *)
Got(o, log) == [out |-> o, log |-> log]

BiasScaleInclusive(scale_raw) == IF scale_raw <= 3 THEN 2 ^ scale_raw ELSE 1

(* scale = 2**scale_raw if scale_raw < 3 else 1 *)
BiasScale(scale_raw) == IF scale_raw < 3 THEN 2 ^ scale_raw ELSE 1

get_tx_bias(c) ==
    LET tx_bias_support == PageSupport(c, "TX_BIAS_SUPPORT_FIELD")
        scale_raw == Read("TX_BIAS_SCALE", module.tx_bias_scale)
        tx_bias == Read("TX_BIAS_FIELD", "lanes")
    IN  IF tx_bias_support.val = "None" THEN Got(NoneOut, tx_bias_support.log)
        ELSE IF tx_bias_support.val = "False" THEN Got(LaneList(NaList), tx_bias_support.log)
        ELSE IF ~scale_raw.ok THEN Got(LaneList(NaList), Append(tx_bias_support.log, scale_raw))
        ELSE IF ~tx_bias.ok
             THEN Got(LaneList(NaList), tx_bias_support.log \o <<scale_raw, tx_bias>>)
        ELSE Got(LaneList([i \in LaneNums |->
                              Val(LaneValue("TX_BIAS_FIELD", i) * BiasScale(module.tx_bias_scale))]),
                 tx_bias_support.log \o <<scale_raw, tx_bias>>)

(* get_tx_power and get_rx_power *)
LanePower(c, support_field, field) ==
    LET support == PageSupport(c, support_field)
        power == Read(field, "lanes")
    IN  IF support.val # "True" THEN Got(LaneList(NaList), support.log)
        ELSE IF ~power.ok THEN Got(NoneOut, Append(support.log, power))
        ELSE Got(LaneList([i \in LaneNums |-> Val(LaneValue(field, i))]), Append(support.log, power))

get_tx_power(c) == LanePower(c, "TX_POWER_SUPPORT_FIELD", "TX_POWER_FIELD")

get_rx_power(c) == LanePower(c, "RX_POWER_SUPPORT_FIELD", "RX_POWER_FIELD")

(* get_tx_fault, get_rx_los, get_tx_disable: support is what the support getter returned *)
LaneFlags(support, field) ==
    LET flags == Read(field, LaneBits(field))
    IN  IF support.val = "None" THEN Got(NoneOut, support.log)
        ELSE IF support.val = "False" THEN Got(LaneList(NaList), support.log)
        ELSE IF ~flags.ok THEN Got(NoneOut, Append(support.log, flags))
        ELSE Got(LaneList([i \in LaneNums |-> Val(BitAt(LaneBits(field), i - 1) = 1)]),
                 Append(support.log, flags))

get_tx_fault(c) == LaneFlags(PageSupport(c, "TX_FAULT_SUPPORT_FIELD"), "TX_FAULT_FIELD")

get_rx_los(c) == LaneFlags(PageSupport(c, "RX_LOS_SUPPORT"), "RX_LOS_FIELD")

get_tx_disable_support(c) ==
    MemoOpt(c, "get_tx_disable_support", PageSupport(c, "TX_DISABLE_SUPPORT_FIELD"))

get_tx_disable(c) == LaneFlags(get_tx_disable_support(c), "TX_DISABLE_FIELD")

PerLaneGetters ==
    {"get_tx_bias", "get_tx_power", "get_rx_power", "get_tx_fault", "get_rx_los", "get_tx_disable"}

PerLane(name, c) ==
    CASE name = "get_tx_bias" -> get_tx_bias(c)
      [] name = "get_tx_power" -> get_tx_power(c)
      [] name = "get_rx_power" -> get_rx_power(c)
      [] name = "get_tx_fault" -> get_tx_fault(c)
      [] name = "get_rx_los" -> get_rx_los(c)
      [] name = "get_tx_disable" -> get_tx_disable(c)

(* a getter that changes nothing but the cache *)
GetterEffect(name, r, c) ==
    /\ call' = GetterCall(name, "")
    /\ out' = r.out
    /\ ret' = r.out.kind
    /\ oplog' = r.log
    /\ cache' = c
    /\ UNCHANGED GetterQuietVars

GetPerLane(name) ==
    GetterEffect(name, PerLane(name, cache),
                 IF name = "get_tx_disable" THEN get_tx_disable_support(cache).cache ELSE cache)

-----------------------------------------------------------------------------
(* The getters of fields on upper pages *)

(* get_loopback_capability as the caller sees it: None or the dict of booleans *)
LoopbackCapability ==
    LET r == get_loopback_capability
    IN  Got(IF r.ok THEN [kind |-> "dict", exc |-> "none",
                          dict |-> [k \in DOMAIN CapabilityBit |-> Supported(r.bits, k)]]
            ELSE NoneOut,
            r.log)

LASER_TEMP_SCALE == 256

(* what the module holds in the AUX2 and AUX3 monitor and threshold fields *)
AuxRaw == 50 * LASER_TEMP_SCALE

LaserTempKeys == {"monitor value", "high alarm", "low alarm", "high warn", "low warn"}

LaserTempField(aux, key) ==
    CASE key = "monitor value" -> aux \o "_MON"
      [] key = "high alarm" -> aux \o "_HIGH_ALARM"
      [] key = "low alarm" -> aux \o "_LOW_ALARM"
      [] key = "high warn" -> aux \o "_HIGH_WARN"
      [] key = "low warn" -> aux \o "_LOW_WARN"

LaserTempOrder == <<"monitor value", "high alarm", "low alarm", "high warn", "low warn">>

(* value/LASER_TEMP_SCALE if value is not None else 'N/A' *)
get_laser_temp_threshold(field) ==
    IF field \in rfail THEN NA ELSE Val(AuxRaw \div LASER_TEMP_SCALE)

LaserTempDefault == [kind |-> "dict", exc |-> "none", dict |-> [k \in LaserTempKeys |-> NA]]

LaserTemp(aux, log) ==
    Got([kind |-> "dict", exc |-> "none",
         dict |-> [k \in LaserTempKeys |-> get_laser_temp_threshold(LaserTempField(aux, k))]],
        log \o [n \in 1 .. Len(LaserTempOrder) |-> Read(LaserTempField(aux, LaserTempOrder[n]), AuxRaw)])

get_laser_temperature(c) ==
    LET result == Read("AUX_MON_TYPE", module.aux_mon_type)
        aux2_mon_type == BitAt(module.aux_mon_type, 1)
        aux3_mon_type == BitAt(module.aux_mon_type, 2)
    IN  IF c.is_flat_memory.val THEN Got(LaserTempDefault, <<>>)
        ELSE IF ~result.ok THEN Got(LaserTempDefault, <<result>>)
        ELSE IF aux2_mon_type = 0 THEN LaserTemp("AUX2", <<result>>)
        ELSE IF aux2_mon_type = 1 /\ aux3_mon_type = 0 THEN LaserTemp("AUX3", <<result>>)
        ELSE Got(LaserTempDefault, <<result>>)

IntOut(n) == [kind |-> "int", exc |-> "none", dict |-> n]

(* get_datapath_deinit: None, or the bit of every lane *)
get_datapath_deinit ==
    LET r == Read("DATAPATH_DEINIT_FIELD", datapath_deinit)
    IN  IF ~r.ok THEN Got(NoneOut, <<r>>)
        ELSE Got(LaneList([i \in LaneNums |-> Val(BitAt(datapath_deinit, i - 1) = 1)]), <<r>>)

(* get_application(lane): (read >> 4) & 0xf, 0 on a flat module or a lane out
   of range; None >> 4 raises TypeError *)
get_application(c, lane) ==
    LET r == Read(ApselField(lane), apsel[lane + 1])
    IN  IF lane \notin Lanes \/ c.is_flat_memory.val THEN Got(IntOut(0), <<>>)
        ELSE IF ~r.ok THEN Got([kind |-> "raise", exc |-> "TypeError", dict |-> EmptyDict], <<r>>)
        ELSE Got(IntOut((apsel[lane + 1] \div 16) % 16), <<r>>)

PagedGetters ==
    {"get_loopback_capability", "get_laser_temperature", "get_module_pwr_up_duration",
     "get_module_pwr_down_duration", "get_datapath_deinit", "get_application"}

(* [out, log, cache] of a getter; get_application is asked for lane 0 *)
Paged(name, c) ==
    LET up == get_module_pwr_up_duration(c)
        down == get_module_pwr_down_duration(c)
        keep(r) == [out |-> r.out, log |-> r.log, cache |-> c]
    IN  CASE name = "get_loopback_capability" -> keep(LoopbackCapability)
          [] name = "get_laser_temperature" -> keep(get_laser_temperature(c))
          [] name = "get_module_pwr_up_duration" -> [out |-> IntOut(up.val), log |-> up.log, cache |-> up.cache]
          [] name = "get_module_pwr_down_duration" -> [out |-> IntOut(down.val), log |-> down.log, cache |-> down.cache]
          [] name = "get_datapath_deinit" -> keep(get_datapath_deinit)
          [] name = "get_application" -> keep(get_application(c, 0))

GetPaged(name) == GetterEffect(name, Paged(name, cache), Paged(name, cache).cache)

-----------------------------------------------------------------------------
(* Specifications *)

DpQuiet ==
    /\ apsel \in {[l \in LaneNums |-> v] : v \in {17}}
    /\ apply_dpinit = 0
    /\ dp_state = [l \in LaneNums |-> "DataPathDeactivated"]
    /\ config_status = [l \in LaneNums |-> "ConfigSuccess"]
    /\ call = NoCall
    /\ ret = "None"
    /\ oplog = <<>>
    /\ prev = NoPrev

FwQuiet ==
    /\ cdb_supported = TRUE
    /\ fw = FwIdle
    /\ cdblog = <<>>

(* a paged-memory module in ModuleReady, nothing cached but is_flat_memory(), which
   __init__ calls *)
ModuleQuiet ==
    [flat_mem |-> FALSE, power_class |-> "Power Class 8", control |-> 0, state |-> "ModuleReady",
     pwrup |-> 0, pwrdn |-> 0, loopback_capability |-> 0, host_input |-> 0, host_output |-> 0,
     media_input |-> 0, media_output |-> 0, support |-> {}, tx_bias_scale |-> 0, aux_mon_type |-> 0,
     tx_disable |-> 0, advt |-> <<>>]

NotCached == [set |-> FALSE, val |-> 0]
NotCachedStr == [set |-> FALSE, val |-> "None"]

CacheAtInit(flat) ==
    [is_flat_memory |-> [set |-> TRUE, val |-> flat],
     get_lpmode_support |-> [set |-> FALSE, val |-> FALSE],
     get_module_pwr_up_duration |-> NotCached,
     get_module_pwr_down_duration |-> NotCached,
     get_module_hardware_revision |-> NotCachedStr,
     get_vendor_rev |-> NotCachedStr,
     get_cmis_rev |-> NotCachedStr,
     get_application_advertisement |-> NotCachedStr,
     get_tx_disable_support |-> NotCachedStr]

ApiQuiet ==
    /\ module = ModuleQuiet
    /\ cache = CacheAtInit(FALSE)
    /\ lp = LpIdle
    /\ lb = LbIdle
    /\ out = NoOut

(* set_datapath_init / set_datapath_deinit applied once to every register value and mask *)
InitPolarity ==
    /\ cmis_major \in CmisMajors
    /\ datapath_deinit \in Bytes
    /\ wfail \in {{}, {"DATAPATH_DEINIT_FIELD"}}
    /\ rfail = {}
    /\ DpQuiet
    /\ FwQuiet
    /\ ApiQuiet

NextPolarity ==
    /\ call.name = "none"
    /\ \E m \in Bytes : SetDatapathInit(m) \/ SetDatapathDeinit(m)

SpecPolarity == InitPolarity /\ [][NextPolarity]_vars

(* the datapath lifecycle controller on a module whose lanes and transport change *)
DpMasks == {5}
DeviantDpStates == {"DataPathActivated"}
DeviantConfigStatuses == {"ConfigInProgress"}

InitDP ==
    /\ cmis_major \in CmisMajors
    /\ datapath_deinit = 165
    /\ wfail = {}
    /\ rfail = {}
    /\ DpQuiet
    /\ FwQuiet
    /\ ApiQuiet

NextDP ==
    \/ DecommissionAllDatapaths
    \/ \E m \in DpMasks : SetDatapathInit(m)
    \/ \E m \in DpMasks : SetDatapathDeinit(m)
    \/ \E m \in DpMasks : SetApplication(m, 1, 1)
    \/ \E m \in DpMasks : ScsApplyDatapathInit(m)
    \/ \E l \in LaneNums, v \in DeviantDpStates \cup {"DataPathDeactivated"} : ModuleDatapathState(l, v)
    \/ \E l \in LaneNums, v \in DeviantConfigStatuses \cup {"ConfigSuccess"} : ModuleConfigStatus(l, v)
    \/ \E f \in {"DATA_PATH_STATE", "CONFIG_LANE_STATUS"} : ReadFault(f)
    \/ \E f \in {"DATAPATH_DEINIT_FIELD", "STAGED_CTRL_APSEL_FIELD_0_3"} : WriteFault(f)

SpecDP == InitDP /\ [][NextDP]_vars

(* the firmware API against a CDB collaborator that may answer anything *)
UpgradeImages == {Missing, File(50), File(332)}
FeatureReplies == [rpl2 : {100}, rpl4 : {255}, rpl5 : {1, 17, 2}]

InitFW ==
    /\ cmis_major = 4
    /\ datapath_deinit = 0
    /\ wfail = {}
    /\ rfail \in {{}, {"CDB_SEQ_WRITE_LENGTH_EXT"}}
    /\ DpQuiet
    /\ cdb_supported \in BOOLEAN
    /\ fw = FwIdle
    /\ cdblog = <<>>
    /\ ApiQuiet

DlStep ==
    \/ \E s1, s2 \in StatusCodes : DlStart(s1, s2)
    \/ \E s \in StatusCodes : DlBlock(s)
    \/ \E s \in StatusCodes : DlValidate(s)

CallDownload ==
    \/ \E st \in StartSizes, mb \in MaxBlockSizes, lpl \in BOOLEAN, img \in ImageSizes :
          ModuleFwDownload(st, mb, lpl, File(img))
    \/ \E st \in StartSizes, mb \in SmallBlockSizes, img \in ShortImageSizes :
          ModuleFwDownload(st, mb, FALSE, File(img))
    \/ \E st \in StartSizes, mb \in MaxBlockSizes : ModuleFwDownload(st, mb, FALSE, Missing)

NextFW ==
    \/ CallDownload
    \/ \E s1, s2 \in StatusCodes : ModuleFwRun(s1, s2)
    \/ \E s1, s2 \in StatusCodes : ModuleFwCommit(s1, s2)
    \/ ModuleFwSwitch
    \/ \E img \in UpgradeImages : ModuleFwUpgrade(img)
    \/ \E r1, r2 \in FwInfoReplies : UpInfo(r1, r2)
    \/ \E s \in StatusCodes, ok \in BOOLEAN, f \in FeatureReplies : UpFeature(s, ok, f.rpl2, f.rpl4, f.rpl5)
    \/ DlStep
    \/ \E r1, r2 \in FwInfoReplies : SwInfo(r1, r2)
    \/ \E s1, s2 \in StatusCodes : SwRun(s1, s2)
    \/ \E s1, s2 \in StatusCodes : SwCommit(s1, s2)
    \/ \E r1, r2 \in FwInfoReplies : SwInfo2(r1, r2)
    \/ FwReturn

SpecFW == InitFW /\ [][NextFW]_vars

(* module_fw_download alone; the call is synchronous, so a started download keeps running *)
NextDownload == CallDownload \/ DlStep \/ FwReturn

SpecDownload == InitFW /\ [][NextDownload]_vars /\ WF_vars(DlStep)

-----------------------------------------------------------------------------
(* Properties of the datapath lifecycle controller *)

WriteIndexes(field) == {i \in 1 .. Len(oplog) : oplog[i].op = "write" /\ oplog[i].field = field}
ReadIndexes(field) == {i \in 1 .. Len(oplog) : oplog[i].op = "read" /\ oplog[i].field = field}

(* the bit the claimed polarity gives a lane of the mask *)
ClaimedBit(name, r) ==
    IF name = "set_datapath_init" THEN (IF r >= 4 THEN 0 ELSE 1) ELSE (IF r >= 4 THEN 1 ELSE 0)

(* C1: set_datapath_init(m) writes the prior register value d with the bits of m
   cleared when the CMIS major revision is >= 4 and set when it is 3,
   set_datapath_deinit(m) the opposite, and every bit outside m keeps its prior
   value; revision 3 with m = 0b101 sets bits 0 and 2, revision 4 with m = 0b101
   from 0xFF clears them (writes 0xFA). *)
C1_Polarity ==
    call.name \in {"set_datapath_init", "set_datapath_deinit"} =>
        /\ Len(oplog) = 3
        /\ oplog[2] = Rd("DATAPATH_DEINIT_FIELD", oplog[2].val)
        /\ oplog[3] = Wr("DATAPATH_DEINIT_FIELD", oplog[3].val)
        /\ LET d == oplog[2].val
               w == oplog[3].val
           IN  /\ w \in Bytes
               /\ \A lane \in Lanes :
                      BitAt(w, lane) = IF InMask(lane, call.mask)
                                       THEN ClaimedBit(call.name, cmis_major)
                                       ELSE BitAt(d, lane)
               /\ (call.name = "set_datapath_init" /\ call.mask = 5 /\ cmis_major = 3)
                      => BitAt(w, 0) = 1 /\ BitAt(w, 2) = 1
               /\ (call.name = "set_datapath_init" /\ call.mask = 5 /\ cmis_major = 4 /\ d = 255)
                      => w = 250
               /\ "DATAPATH_DEINIT_FIELD" \notin wfail => datapath_deinit = w

C1_Witness ==
    /\ call.name = "set_datapath_init"
    /\ call.mask = 5
    /\ cmis_major = 4
    /\ Len(oplog) = 3
    /\ oplog[2].val = 255
    /\ datapath_deinit = 250

AllLanesIdle ==
    /\ rfail \cap {"DATA_PATH_STATE", "CONFIG_LANE_STATUS"} = {}
    /\ \A l \in LaneNums : dp_state[l] = "DataPathDeactivated" /\ config_status[l] = "ConfigSuccess"

(* C2: decommission_all_datapaths issues, in this order, the deinit of all 8
   lanes, application-select code 0 on each of the 8 lanes, apply-init on all 8
   lanes, and only then the reads of the datapath state and of the config
   status; it returns true exactly when every lane reports DataPathDeactivated
   and ConfigSuccess, and false when a lane reports anything else. *)
C2_Decommission ==
    call.name = "decommission_all_datapaths" =>
        /\ \E i \in 1 .. Len(oplog) :
              /\ WriteIndexes("DATAPATH_DEINIT_FIELD") = {i}
              /\ oplog[i].val = IF cmis_major >= 4 THEN 255 ELSE 0
              /\ \A l \in Lanes :
                    /\ WriteIndexes(ApselField(l)) = {i + 1 + l}
                    /\ oplog[i + 1 + l].val = 0
              /\ WriteIndexes("STAGED_CTRL_APPLY_DPINIT_FIELD_0") = {i + 9}
              /\ oplog[i + 9].val = 255
              /\ ReadIndexes("DATA_PATH_STATE") = {i + 10}
              /\ ReadIndexes("CONFIG_LANE_STATUS") = {i + 11}
              /\ Len(oplog) = i + 11
        /\ (ret = "True") <=> AllLanesIdle
        /\ (rfail \cap {"DATA_PATH_STATE", "CONFIG_LANE_STATUS"} = {} /\ ~AllLanesIdle) => ret = "False"

C2_Witness ==
    /\ call.name = "decommission_all_datapaths"
    /\ ret = "False"
    /\ rfail = {}
    /\ \A l \in LaneNums : dp_state[l] = "DataPathDeactivated"
    /\ config_status[8] = "ConfigInProgress"

(* C3: decommission_all_datapaths called twice in a row (nothing else called,
   and neither the module nor the transport changing in between) leaves the
   datapath-deinit register, the 8 application-select registers and the
   apply-init register as the first call left them and returns what the first
   call returned, true when the first returned true. *)
C3_Idempotent ==
    (call.name = "decommission_all_datapaths" /\ call.inrow = 2) =>
        /\ prev.valid
        /\ Regs = prev.regs
        /\ ret = prev.ret
        /\ AllLanesIdle => ret = "True"

C3_Witness ==
    /\ call.name = "decommission_all_datapaths"
    /\ call.inrow = 2
    /\ ret = "True"
    /\ prev.ret = "True"
    /\ datapath_deinit = 255

-----------------------------------------------------------------------------
(* Properties of the firmware upgrade orchestrator *)

BlockWrites == {"block_write_lpl", "block_write_epl"}
IsBlockWrite(c) == c.cmd \in BlockWrites
Blocks == SelectSeq(cdblog, IsBlockWrite)
Indexes(cmds) == {i \in 1 .. Len(cdblog) : cdblog[i].cmd \in cmds}

RECURSIVE SumSizes(_, _)
SumSizes(seq, n) == IF n = 0 THEN 0 ELSE seq[n].size + SumSizes(seq, n - 1)

Min(a, b) == IF a < b THEN a ELSE b
Max(a, b) == IF a < b THEN b ELSE a

InDownload == fw.op = "module_fw_download" /\ fw.pc \in {"dl_block", "done"}

(* what C4 says of every block write issued so far *)
BlocksAsClaimed ==
    LET total == fw.imagesize - fw.startLPLsize
        size == IF fw.lplonly THEN 116 ELSE fw.maxblocksize
    IN  \A k \in 1 .. Len(Blocks) :
           /\ Blocks[k].cmd = IF fw.lplonly THEN "block_write_lpl" ELSE "block_write_epl"
           /\ Blocks[k].addr = IF k = 1 THEN 0 ELSE Blocks[k - 1].addr + Blocks[k - 1].size
           /\ Blocks[k].size = Min(size, total - Blocks[k].addr)
           /\ Blocks[k].size > 0

(* C4 as stated: on success the block sizes sum to imagesize - startLPLsize *)
C4_Original ==
    InDownload =>
        /\ BlocksAsClaimed
        /\ fw.download_status = "True"
               => SumSizes(Blocks, Len(Blocks)) = fw.imagesize - fw.startLPLsize

C4_Safety ==
    InDownload =>
        /\ BlocksAsClaimed
        /\ fw.download_status = "True"
               => SumSizes(Blocks, Len(Blocks)) = Max(fw.imagesize - fw.startLPLsize, 0)
        /\ (fw.download_status = "True" /\ fw.imagesize = 1000 /\ fw.startLPLsize = 100
                /\ ~fw.lplonly /\ fw.maxblocksize = 300)
               => /\ Len(Blocks) = 3
                  /\ \A k \in 1 .. 3 : Blocks[k].addr = 300 * (k - 1) /\ Blocks[k].size = 300

(* C4 (amended): block writes use 116 bytes when only local-payload writes are
   supported and the negotiated max block size otherwise; they are issued at
   contiguous addresses from 0, each of min(block size, bytes remaining) bytes
   and never of size 0; on success the sizes sum to imagesize - startLPLsize
   when the image is at least startLPLsize long and to 0 (no block is issued)
   when it is shorter; for every block size >= 1 the transfer loop terminates. *)
C4_Transfer == []C4_Safety /\ ((fw.pc = "dl_block") ~> (fw.pc = "done"))

C4_Witness ==
    /\ fw.op = "module_fw_download"
    /\ fw.download_status = "True"
    /\ fw.imagesize = 1000 /\ fw.startLPLsize = 100 /\ fw.maxblocksize = 300 /\ ~fw.lplonly
    /\ Len(Blocks) = 3
    /\ Blocks[3].addr = 600
    /\ SumSizes(Blocks, 3) = 900

(* C5: the first block write that returns a non-success status is followed by
   exactly one abort-download command and by nothing else: no block write, no
   validate command, and the download (and an upgrade running it) returns
   failure. *)
C5_BlockFailureAborts ==
    \A i \in Indexes(BlockWrites) :
        cdblog[i].status # CdbSuccess =>
            /\ Len(cdblog) = i + 1
            /\ cdblog[i + 1].cmd = "abort_fw_download"
            /\ Cardinality(Indexes({"abort_fw_download"})) = 1
            /\ fw.pc = "done"
            /\ fw.download_status = "False"
            /\ fw.ret = "False"

C5_Witness ==
    /\ Len(Blocks) = 2
    /\ Blocks[1].status = CdbSuccess
    /\ Blocks[2].status = 64
    /\ cdblog[Len(cdblog)].cmd = "abort_fw_download"
    /\ fw.ret = "False"

(* C6: a password-required status (70) of start-download triggers one password
   entry and one retry of start-download; when the retry returns a non-success
   status too, module_fw_download fails and issues no block write. *)
C6_StartRetryFails ==
    \A i \in Indexes({"start_fw_download"}) :
        (/\ cdblog[i].status = PasswordRequired
         /\ i + 2 <= Len(cdblog)
         /\ cdblog[i + 1].cmd = "module_enter_password"
         /\ cdblog[i + 2].cmd = "start_fw_download"
         /\ cdblog[i + 2].status # CdbSuccess)
        => /\ Indexes(BlockWrites) = {}
           /\ fw.pc = "done"
           /\ fw.download_status = "False"

(* C7: module_fw_run and module_fw_commit return success only if the command,
   at its first attempt or at the single retry after a password entry,
   returned success status 1. *)
C7_RunCommitResult ==
    (fw.op \in {"module_fw_run", "module_fw_commit"} /\ fw.pc = "done" /\ cdb_supported) =>
        /\ Len(cdblog) \in {1, 3}
        /\ (fw.ret = "True") <=> (cdblog[Len(cdblog)].status = CdbSuccess)

(* C8: a non-success status of the validate (complete-download) command is
   followed by the abort-download command before the download returns. *)
C8_ValidateFailureAborts ==
    \A i \in Indexes({"validate_fw_image"}) :
        cdblog[i].status # CdbSuccess =>
            /\ i + 1 <= Len(cdblog)
            /\ cdblog[i + 1].cmd = "abort_fw_download"

(* the steps of the upgrade, in the order the state machine names them *)
Phase(cmd) ==
    CASE cmd = "get_fw_management_features" -> 1
      [] cmd = "start_fw_download" -> 2
      [] cmd \in BlockWrites -> 3
      [] cmd = "validate_fw_image" -> 4
      [] cmd = "run_fw_image" -> 5
      [] cmd = "commit_fw_image" -> 6
      [] OTHER -> 0

StepIndexes == {i \in 1 .. Len(cdblog) : Phase(cdblog[i].cmd) > 0}

(* command i is the first attempt of a command that is retried after a password entry *)
Retried(i) ==
    /\ cdblog[i].status = PasswordRequired
    /\ i + 2 <= Len(cdblog)
    /\ cdblog[i + 1].cmd = "module_enter_password"
    /\ cdblog[i + 2].cmd = cdblog[i].cmd

StepFailed(i) == cdblog[i].status # CdbSuccess /\ ~Retried(i)

(* C9: module_fw_upgrade issues the CDB commands only in the order
   query-capabilities, start-download, block writes, validate, run, commit; no
   later step is issued after a step failed (no run or commit unless validate
   succeeded, no commit after a failed run), and the upgrade then returns
   false. *)
C9_Sequential ==
    fw.op = "module_fw_upgrade" =>
        /\ \A i, j \in StepIndexes : i < j => Phase(cdblog[i].cmd) <= Phase(cdblog[j].cmd)
        /\ \A i, j \in StepIndexes : (i < j /\ StepFailed(i)) => Retried(i)
        /\ (fw.pc = "done" /\ \E i \in StepIndexes : StepFailed(i)) => fw.ret = "False"

(* C10: module_fw_switch reads the bank flags before the run command and after
   the commit command; it returns false when the bank that was running before
   is still reported running afterwards, and when not both images were valid
   at the outset it returns false without issuing a run or commit command. *)
C10_Switch ==
    /\ (fw.init.AValid # 0 \/ fw.init.BValid # 0) =>
           /\ fw.switch_status = "False"
           /\ Indexes({"run_fw_image", "commit_fw_image"}) = {}
    /\ ((fw.init.ARunning = 1 /\ fw.after.ARunning = 1) \/ (fw.init.BRunning = 1 /\ fw.after.BRunning = 1))
           => fw.switch_status = "False"
    /\ fw.switch_status = "True" =>
           /\ fw.init.AValid = 0 /\ fw.init.BValid = 0
           /\ \E i, j \in 1 .. Len(cdblog) :
                 /\ i < j
                 /\ cdblog[i].cmd = "run_fw_image" /\ cdblog[i - 1].cmd = "get_fw_info"
                 /\ cdblog[j].cmd = "commit_fw_image"
                 /\ cdblog[Len(cdblog)].cmd = "get_fw_info" /\ j < Len(cdblog)

C10_Witness ==
    /\ fw.op = "module_fw_switch"
    /\ fw.pc = "done"
    /\ fw.init.ARunning = 1 /\ fw.init.AValid = 0 /\ fw.init.BValid = 0
    /\ fw.after.ARunning = 1
    /\ fw.switch_status = "False"
    /\ Indexes({"commit_fw_image"}) # {}

-----------------------------------------------------------------------------
(* The low-power controller on modules of every kind, while the module changes
   state and the transport fails and recovers *)

MaxPwrDuration == 400                                \* milliseconds
PwrDurations == {0, 250, MaxPwrDuration}
IterationTimes == {DelayRetryMs, DelayRetryMs + 50}  \* a check and a sleep of 100 ms take at least 100 ms
LpControls == {0, 80, 175, 255}
ModuleStates == {"ModuleLowPwr", "ModuleReady"}
PowerClasses == {"Power Class 1", "Power Class 8"}

InitLP ==
    /\ cmis_major = 4
    /\ datapath_deinit = 0
    /\ DpQuiet
    /\ FwQuiet
    /\ rfail \in {{}, {"POWER_CLASS_FIELD"}, {"MODULE_PWRDN_DURATION"}}
    /\ wfail \in {{}, {"MODULE_LEVEL_CONTROL"}}
    /\ \E m \in [flat_mem : BOOLEAN, power_class : PowerClasses, control : LpControls,
                   state : {"ModuleLowPwr", "ModuleReady"}, pwrup : {250}, pwrdn : PwrDurations] :
          module = [ModuleQuiet EXCEPT !.flat_mem = m.flat_mem, !.power_class = m.power_class,
                                       !.control = m.control, !.state = m.state,
                                       !.pwrup = m.pwrup, !.pwrdn = m.pwrdn]
    /\ cache = CacheAtInit(module.flat_mem)
    /\ lp = LpIdle
    /\ lb = LbIdle
    /\ out = NoOut

NextLP ==
    \/ \E lpmode, wait \in BOOLEAN : SetLpmode(lpmode, wait)
    \/ \E t \in IterationTimes : LpPoll(t)
    \/ LpFinalCheck
    \/ GetLpmode
    \/ LpReturn
    \/ \E v \in ModuleStates : ModuleStateChange(v)
    \/ \E f \in {"TRANS_MODULE_STATUS_FIELD", "MODULE_LEVEL_CONTROL"} : TransportReadFault(f)

SpecLP == InitLP /\ [][NextLP]_vars

-----------------------------------------------------------------------------
(* Properties of the low-power controller *)

AccessIndexes(op, fields) == {i \in 1 .. Len(oplog) : oplog[i].op = op /\ oplog[i].field \in fields}

ControlWrites == AccessIndexes("write", {"MODULE_LEVEL_CONTROL"})
ControlReads == AccessIndexes("read", {"MODULE_LEVEL_CONTROL"})
PollReads == AccessIndexes("read", {"TRANS_MODULE_STATUS_FIELD", "MODULE_STATE"})

InSetLpmode(lpmode, wait) ==
    /\ call.name = "set_lpmode"
    /\ call.lpmode = lpmode
    /\ call.wait = wait

(* the call went past the support gate and read the control register *)
LpWritten == \E i \in ControlReads : oplog[i].ok

LpFinished == lp.pc \in {"done", "final"}

(* the poll at index i of the log observed the state the call waits for *)
Observed(i, state) == oplog[i].ok /\ oplog[i].val = state

(* one write of the control register, right after its read, and every poll after it *)
WriteThenPoll(field) ==
    /\ Cardinality(ControlWrites) = 1
    /\ Cardinality(ControlReads) = 1
    /\ \A w \in ControlWrites :
          /\ w - 1 \in ControlReads
          /\ \A i \in PollReads : i > w /\ oplog[i].field = field

(* polls 100 ms apart while the duration has not elapsed, then one final check;
   the result is that of the last poll, which is the only one that may observe `state` *)
PollDiscipline(state, duration) ==
    LET n == Cardinality(PollReads)
        last == IF PollReads = {} THEN 0 ELSE CHOOSE i \in PollReads : \A j \in PollReads : j <= i
    IN  /\ lp.duration = duration
        /\ \A i \in PollReads : Observed(i, state) => LpFinished /\ i = last
        /\ (lp.pc = "poll" /\ n >= 1) => (n - 1) * DelayRetryMs < duration
        /\ lp.pc = "done" => n >= 1 /\ (n - 1) * DelayRetryMs < duration
        /\ lp.pc = "final" => /\ n >= 1
                              /\ n >= 2 => (n - 2) * DelayRetryMs < duration
                              /\ lp.elapsed >= duration
        /\ LpFinished => (ret = "True" <=> \E i \in PollReads : Observed(i, state))
        /\ LpFinished => ret \in {"True", "False"}

AdvertisedDuration(field, val) == IF field \in rfail THEN 0 ELSE val

(* C11: set_lpmode(True) with waiting writes the control register with the
   software low-power request bit set and the other bits as read, then polls
   the low-power state 100 ms apart while the power-down duration has not
   elapsed, with one final check after it; it returns true iff one of these
   polls observed LowPower, and a poll inside the loop that observes LowPower
   as the k-th read (k = 3 for a module that flips at the third poll) ends the
   call with k reads, k < duration/100ms + 1. *)
C11_EnterLowPower ==
    (InSetLpmode(TRUE, TRUE) /\ LpWritten) =>
        /\ WriteThenPoll("TRANS_MODULE_STATUS_FIELD")
        /\ \A w \in ControlWrites :
              /\ BitAt(oplog[w].val, LowPwrRequestSW) = 1
              /\ \A b \in (0 .. 7) \ {LowPwrRequestSW} : BitAt(oplog[w].val, b) = BitAt(oplog[w - 1].val, b)
        /\ PollDiscipline("ModuleLowPwr", AdvertisedDuration("MODULE_PWRDN_DURATION", module.pwrdn))

C11_Witness ==
    /\ InSetLpmode(TRUE, TRUE)
    /\ lp.pc = "done"
    /\ ret = "True"
    /\ Cardinality(PollReads) = 3
    /\ lp.duration = 250

(* C12: set_lpmode(False) writes the control register with bits 4 and 6 cleared
   and every other bit as just read, and only after that write polls the module
   state for ModuleReady under the power-up duration, with the same 100 ms and
   final-check discipline, returning true iff ModuleReady was observed. *)
C12_LeaveLowPower ==
    (InSetLpmode(FALSE, TRUE) /\ LpWritten) =>
        /\ WriteThenPoll("MODULE_STATE")
        /\ \A w \in ControlWrites :
              \A b \in 0 .. 7 :
                 BitAt(oplog[w].val, b) =
                    IF b \in {LowPwrRequestSW, LowPwrAllowRequestHW} THEN 0 ELSE BitAt(oplog[w - 1].val, b)
        /\ PollDiscipline("ModuleReady", AdvertisedDuration("MODULE_PWRUP_DURATION", module.pwrup))

C12_Witness ==
    /\ InSetLpmode(FALSE, TRUE)
    /\ lp.pc = "final"
    /\ ret = "True"
    /\ Cardinality(PollReads) >= 3
    /\ \E w \in ControlWrites : oplog[w - 1].val = 255 /\ oplog[w].val = 175

(* C13: with the wait flag false, set_lpmode on a module that supports low power
   and whose control register was read performs exactly one control-register
   write and returns true at once, with no module-state poll and no sleep. *)
C13_NoWait ==
    (call.name = "set_lpmode" /\ ~call.wait) =>
        /\ lp.pc = "done"
        /\ PollReads = {}
        /\ lp.elapsed = 0
        /\ LpWritten => /\ ret = "True"
                         /\ Cardinality(ControlWrites) = 1
                         /\ \A w \in ControlWrites : w = Len(oplog)

C13_Witness ==
    /\ call.name = "set_lpmode"
    /\ ~call.wait
    /\ call.lpmode
    /\ LpWritten
    /\ ret = "True"
    /\ module.state = "ModuleReady"

(* C14: on a flat-memory module, a Power Class 1 module or a module whose power
   class cannot be read, get_lpmode and set_lpmode (any arguments) return false,
   and set_lpmode issues no register write and no poll. *)
C14_Unsupported ==
    ((module.flat_mem \/ module.power_class = "Power Class 1" \/ "POWER_CLASS_FIELD" \in rfail)
        /\ call.name \in {"get_lpmode", "set_lpmode"}) =>
        /\ ret = "False"
        /\ lp.pc = "done"
        /\ AccessIndexes("write", {"MODULE_LEVEL_CONTROL"}) = {}
        /\ PollReads = {}
        /\ ControlReads = {}

C14_Witness ==
    /\ call.name = "set_lpmode"
    /\ call.lpmode
    /\ call.wait
    /\ ~module.flat_mem
    /\ module.power_class = "Power Class 1"
    /\ ret = "False"

-----------------------------------------------------------------------------
(* The loopback controller on modules of every advertised capability *)

LoopbackFields == {"HOST_INPUT_LOOPBACK", "HOST_OUTPUT_LOOPBACK", "MEDIA_INPUT_LOOPBACK",
                   "MEDIA_OUTPUT_LOOPBACK"}
(* all seven bits set; one of them clear; none set *)
LoopbackCapabilities == {127, 63, 111, 119, 125, 0}
LoopbackMasks == {3, AllLanes}
LoopbackValues == {0, 3}

InitLoopback ==
    /\ cmis_major = 4
    /\ datapath_deinit = 0
    /\ DpQuiet
    /\ FwQuiet
    /\ rfail \in {{}, {"LOOPBACK_CAPABILITY"}, {"HOST_OUTPUT_LOOPBACK"},
                  {"MEDIA_INPUT_LOOPBACK", "MEDIA_OUTPUT_LOOPBACK"}}
    /\ wfail \in {{}, {"HOST_OUTPUT_LOOPBACK"}}
    /\ \E flat \in BOOLEAN, c \in LoopbackCapabilities :
          /\ module = [ModuleQuiet EXCEPT !.flat_mem = flat, !.loopback_capability = c]
          /\ cache = CacheAtInit(flat)
    /\ lp = LpIdle
    /\ lb = LbIdle
    /\ out = NoOut

NextLoopback ==
    \/ \E mode \in LoopbackModes, m \in LoopbackMasks, enable \in BOOLEAN : SetOneLoopback(mode, m, enable)
    \/ \E mode \in {"none", "host-side-output", "line-side"} : SetLoopbackMode(mode, AllLanes, FALSE)
    \/ \E f \in LoopbackFields, v \in LoopbackValues : ModuleLoopback(f, v)

SpecLoopback == InitLoopback /\ [][NextLoopback]_vars

-----------------------------------------------------------------------------
(* Properties of the loopback controller *)

LoopbackWrites == AccessIndexes("write", LoopbackFields)

(* the capability key of the direction and of the per-lane granularity of a mode,
   and the registers of the opposite side *)
DirectionKey(mode) ==
    CASE mode = "host-side-input" -> "host_side_input_loopback_supported"
      [] mode = "host-side-output" -> "host_side_output_loopback_supported"
      [] mode = "media-side-input" -> "media_side_input_loopback_supported"
      [] mode = "media-side-output" -> "media_side_output_loopback_supported"

HostSide(mode) == mode \in {"host-side-input", "host-side-output"}

PerLaneKey(mode) ==
    IF HostSide(mode) THEN "per_lane_host_loopback_supported" ELSE "per_lane_media_loopback_supported"

OppositeNonZero(mode) ==
    IF HostSide(mode)
    THEN lb.pre.MEDIA_INPUT_LOOPBACK # 0 \/ lb.pre.MEDIA_OUTPUT_LOOPBACK # 0
    ELSE lb.pre.HOST_INPUT_LOOPBACK # 0 \/ lb.pre.HOST_OUTPUT_LOOPBACK # 0

CapabilityUnread == module.flat_mem \/ "LOOPBACK_CAPABILITY" \in rfail

DirectionRefused(mode) ==
    CapabilityUnread \/ ~Supported(module.loopback_capability, DirectionKey(mode))

GranularityRefused(mode, mask) ==
    ~Supported(module.loopback_capability, PerLaneKey(mode)) /\ mask # 255

SimultaneousRefused(mode) ==
    /\ ~Supported(module.loopback_capability, "simultaneous_host_media_loopback_supported")
    /\ OppositeNonZero(mode)

FailedClosed ==
    /\ ret = "False"
    /\ LoopbackWrites = {}
    /\ Loopbacks = lb.pre

(* C15: each of the four loopback setters returns false and issues no register
   write, for enable and for disable, when the capabilities cannot be read or
   the direction is not advertised, when per-lane granularity of the side is
   unsupported and the lane mask is not 0xFF, or when simultaneous host+media
   loopback is unsupported and a loopback register of the opposite side is
   non-zero. *)
C15_FailClosed ==
    (call.name = "set_loopback"
        /\ (DirectionRefused(call.mode) \/ GranularityRefused(call.mode, call.mask)
                \/ SimultaneousRefused(call.mode)))
    => FailedClosed

(* C16: set_loopback_mode('none') invokes the four disable operations, each with
   mask 0xFF, whatever the earlier ones returned, and returns the logical AND of
   the four results. *)
C16_ClearAll ==
    (call.name = "set_loopback_mode" /\ call.mode = "none") =>
        /\ Len(lb.results) = 4
        /\ ret = (IF \A i \in 1 .. 4 : lb.results[i] = "True" THEN "True" ELSE "False")
        /\ \A w \in LoopbackWrites : oplog[w].val = 0

-----------------------------------------------------------------------------
(* The VDM aggregator on what the VDM page reader may return *)

VdmSubtypes == 9                                     \* the positions of VdmSubtypeIndex
VdmObservables == {CMIS_VDM_KEY_TO_DB_PREFIX_KEY_MAP[n][1] : n \in DOMAIN CMIS_VDM_KEY_TO_DB_PREFIX_KEY_MAP}
VdmValue(o, l, i) == o \o "/" \o ToString(l) \o "/" \o ToString(i)

Scalar == [tag |-> "scalar"]
VdmList(o, l, len) == [tag |-> "seq", items |-> [i \in 1 .. len |-> VdmValue(o, l, i - 1)]]

(* what get_vdm returns: well formed except for the defect d = [kind, obs, lane, len] *)
VdmRaw(d) ==
    IF d.kind = "raw_none" THEN [tag |-> "none"]
    ELSE [tag |-> "map",
          at |-> [o \in VdmObservables \ (IF d.kind = "obs_absent" THEN {d.obs} ELSE {}) |->
                    IF o = d.obs /\ d.kind = "obs_scalar" THEN Scalar
                    ELSE [tag |-> "map",
                          at |-> [l \in LaneNums \ (IF o = d.obs /\ d.kind = "lane_absent" THEN {d.lane} ELSE {}) |->
                                    IF o = d.obs /\ l = d.lane /\ d.kind = "lane_scalar" THEN Scalar
                                    ELSE IF o = d.obs /\ l = d.lane /\ d.kind = "short" THEN VdmList(o, l, d.len)
                                    ELSE VdmList(o, l, VdmSubtypes)]]]]

VdmDefects ==
    [kind : {"none", "raw_none"}, obs : {"eSNR Media Input [dB]"}, lane : {5}, len : {0}]
    \cup [kind : {"obs_absent", "obs_scalar"}, obs : {"Laser Temperature [C]", "eSNR Media Input [dB]"},
          lane : {5}, len : {0}]
    \cup [kind : {"lane_absent", "lane_scalar"}, obs : {"eSNR Media Input [dB]"},
          lane : {1, 8}, len : {0}]
    \cup [kind : {"short"}, obs : {"Laser Temperature [C]", "eSNR Media Input [dB]"},
          lane : {5}, len : {0, 1, 5, VdmSubtypes - 1}]

VdmRaws == {VdmRaw(d) : d \in VdmDefects}

InitVdm ==
    /\ cmis_major = 4
    /\ datapath_deinit = 0
    /\ DpQuiet
    /\ FwQuiet
    /\ rfail = {}
    /\ wfail = {}
    /\ \E flat \in BOOLEAN :
          /\ module = [ModuleQuiet EXCEPT !.flat_mem = flat]
          /\ cache = CacheAtInit(flat)
    /\ lp = LpIdle
    /\ lb = LbIdle
    /\ out = NoOut

NextVdm ==
    \/ \E raw \in VdmRaws : GetTransceiverVdmRealValue(raw)
    \/ \E raw \in VdmRaws : GetTransceiverVdmThresholds(raw)
    \/ \E raw \in VdmRaws : GetTransceiverVdmFlags(raw)

SpecVdm == InitVdm /\ [][NextVdm]_vars

-----------------------------------------------------------------------------
(* Properties of the VDM aggregator *)

(* the keys an aggregate is to hold: [key, obs, lane, index] *)
VdmSuffixes == <<"halarm", "lalarm", "hwarn", "lwarn">>

VdmKeys(name) ==
    IF name = "get_transceiver_vdm_real_value"
    THEN {[key |-> CMIS_VDM_KEY_TO_DB_PREFIX_KEY_MAP[n][2] \o ToString(l),
           obs |-> CMIS_VDM_KEY_TO_DB_PREFIX_KEY_MAP[n][1], lane |-> l, index |-> 0] :
             n \in DOMAIN CMIS_VDM_KEY_TO_DB_PREFIX_KEY_MAP, l \in LaneNums}
    ELSE {[key |-> CMIS_VDM_KEY_TO_DB_PREFIX_KEY_MAP[x[1]][2] \o "_" \o VdmSuffixes[x[3]] \o ToString(x[2]),
           obs |-> CMIS_VDM_KEY_TO_DB_PREFIX_KEY_MAP[x[1]][1], lane |-> x[2],
           index |-> x[3] + (IF name = "get_transceiver_vdm_thresholds" THEN 0 ELSE 4)] :
             x \in (DOMAIN CMIS_VDM_KEY_TO_DB_PREFIX_KEY_MAP) \X LaneNums \X (1 .. 4)}

(* raw[obs][lane][index] exists *)
VdmEntryExists(raw, obs, lane, index) ==
    /\ raw.tag = "map"
    /\ obs \in DOMAIN raw.at
    /\ raw.at[obs].tag = "map"
    /\ lane \in DOMAIN raw.at[obs].at
    /\ raw.at[obs].at[lane].tag = "seq"
    /\ index < Len(raw.at[obs].at[lane].items)

VdmGetters == {"get_transceiver_vdm_real_value", "get_transceiver_vdm_thresholds",
               "get_transceiver_vdm_flags"}

(* C17: each VDM aggregate (real values, thresholds, flags) holds exactly one
   key for every observable of the prefix table and every lane 1..8 (times the
   four bound suffixes for thresholds and flags); a key holds
   raw[observable][lane][subtypeIndex] when that entry exists and 'N/A' when it
   is absent or malformed at the observable, the lane or the subtype position;
   no exception is raised. *)
C17_VdmAggregate ==
    call.name \in VdmGetters =>
        /\ out.kind = "dict"
        /\ DOMAIN out.dict = {k.key : k \in VdmKeys(call.name)}
        /\ Cardinality(DOMAIN out.dict) =
               Len(CMIS_VDM_KEY_TO_DB_PREFIX_KEY_MAP) * NUM_CHANNELS
                  * (IF call.name = "get_transceiver_vdm_real_value" THEN 1 ELSE 4)
        /\ \A k \in VdmKeys(call.name) :
              out.dict[k.key] = IF VdmEntryExists(call.arg, k.obs, k.lane, k.index)
                                THEN call.arg.at[k.obs].at[k.lane].items[k.index + 1]
                                ELSE "N/A"

-----------------------------------------------------------------------------
(* get_transceiver_info on a module whose reads may fail *)

MaxReadFaults == 2

InitInfo ==
    /\ cmis_major = 4
    /\ datapath_deinit = 0
    /\ DpQuiet
    /\ FwQuiet
    /\ rfail = {}
    /\ wfail = {}
    /\ \E flat \in BOOLEAN :
          /\ module = [ModuleQuiet EXCEPT !.flat_mem = flat]
          /\ cache = CacheAtInit(flat)
    /\ lp = LpIdle
    /\ lb = LbIdle
    /\ out = NoOut

NextInfo ==
    \/ \E f \in InfoFields :
          /\ Cardinality(rfail \cup {f}) <= MaxReadFaults
          /\ TransportReadFault(f)
    \/ GetTransceiverInfo

SpecInfo == InitInfo /\ [][NextInfo]_vars

-----------------------------------------------------------------------------
(* Properties of get_transceiver_info *)

FailedReads == {i \in DOMAIN oplog : ~oplog[i].ok}

(* C18: get_transceiver_info returns None if and only if at least one read of
   a constituent field failed during the call; a dict it returns never holds
   data of a failed read next to valid data. *)
C18_InfoAllOrNothing ==
    call.name = "get_transceiver_info" =>
        /\ (out.kind = "None") <=> (FailedReads # {})
        /\ out.kind \in {"None", "dict"}

-----------------------------------------------------------------------------
(* The monitors of a module whose reads may fail *)

SupportFields ==
    {"TX_BIAS_SUPPORT_FIELD", "TX_POWER_SUPPORT_FIELD", "RX_POWER_SUPPORT_FIELD",
     "TX_FAULT_SUPPORT_FIELD", "RX_LOS_SUPPORT", "TX_DISABLE_SUPPORT_FIELD"}

LaneFields ==
    {"TX_BIAS_SCALE", "TX_BIAS_FIELD", "TX_POWER_FIELD", "RX_POWER_FIELD", "TX_FAULT_FIELD",
     "RX_LOS_FIELD", "TX_DISABLE_FIELD"}

InitMonitor ==
    /\ cmis_major = 4
    /\ datapath_deinit = 0
    /\ DpQuiet
    /\ FwQuiet
    /\ rfail = {}
    /\ wfail = {}
    /\ \E flat \in BOOLEAN, sup \in {SupportFields, {}}, scale \in {0, 2, 3} :
          /\ module = [ModuleQuiet EXCEPT !.flat_mem = flat, !.support = sup, !.tx_bias_scale = scale]
          /\ cache = CacheAtInit(flat)
    /\ lp = LpIdle
    /\ lb = LbIdle
    /\ out = NoOut

NextMonitor ==
    \/ \E f \in SupportFields \cup LaneFields :
          /\ Cardinality(rfail \cup {f}) <= MaxReadFaults
          /\ TransportReadFault(f)
    \/ \E name \in PerLaneGetters : GetPerLane(name)

SpecMonitor == InitMonitor /\ [][NextMonitor]_vars

-----------------------------------------------------------------------------
(* Properties of the per-lane getters *)

(* the feature behind the last call is not supported: the module is flat or
   the support flag was read and is clear *)
Unsupported ==
    \/ cache.is_flat_memory.val
    \/ \E i \in DOMAIN oplog : oplog[i].field \in SupportFields /\ oplog[i].ok /\ oplog[i].val = FALSE

(* C20: a per-lane getter returns the list of eight 'N/A' only when the
   feature is not supported; when a read it makes fails (support flag, scale
   or value) it returns None, never the 'N/A' list or a partly filled list. *)
C20_PerLaneFailure ==
    call.name \in PerLaneGetters =>
        /\ (out.kind = "list" /\ out.dict = NaList) => Unsupported
        /\ FailedReads # {} => out.kind = "None"

-----------------------------------------------------------------------------
(* The getters of upper-page fields on flat and on paged modules *)

(* the fields those getters read; all of them lie on pages above the base page *)
UpperPageFields ==
    SupportFields \cup LaneFields
    \cup {"LOOPBACK_CAPABILITY", "AUX_MON_TYPE", "MODULE_PWRUP_DURATION", "MODULE_PWRDN_DURATION",
          "DATAPATH_DEINIT_FIELD"}
    \cup {LaserTempField(aux, k) : aux \in {"AUX2", "AUX3"}, k \in LaserTempKeys}
    \cup {ApselField(l) : l \in Lanes}

PagedFaults == {"AUX_MON_TYPE", "DATAPATH_DEINIT_FIELD", "TX_BIAS_SCALE"}

InitFlat ==
    /\ cmis_major = 4
    /\ datapath_deinit = 129
    /\ DpQuiet
    /\ FwQuiet
    /\ rfail = {}
    /\ wfail = {}
    /\ \E flat \in BOOLEAN, aux \in {0, 6} :
          /\ module = [ModuleQuiet EXCEPT !.flat_mem = flat, !.support = SupportFields,
                                          !.aux_mon_type = aux, !.loopback_capability = 127,
                                          !.pwrup = 250, !.pwrdn = 250]
          /\ cache = CacheAtInit(flat)
    /\ lp = LpIdle
    /\ lb = LbIdle
    /\ out = NoOut

NextFlat ==
    \/ \E f \in PagedFaults :
          /\ Cardinality(rfail \cup {f}) <= MaxReadFaults
          /\ TransportReadFault(f)
    \/ \E name \in PerLaneGetters : GetPerLane(name)
    \/ \E name \in PagedGetters : GetPaged(name)
    \/ GetTransceiverVdmRealValue(VdmRaw([kind |-> "none", obs |-> "", lane |-> 0, len |-> 0]))
    \/ GetTransceiverVdmThresholds(VdmRaw([kind |-> "none", obs |-> "", lane |-> 0, len |-> 0]))
    \/ GetTransceiverVdmFlags(VdmRaw([kind |-> "none", obs |-> "", lane |-> 0, len |-> 0]))

SpecFlat == InitFlat /\ [][NextFlat]_vars

-----------------------------------------------------------------------------
(* Properties of the getters on a flat-memory module *)

PageDependentGetters == PerLaneGetters \cup PagedGetters \cup VdmGetters

(* the sentinel of a getter; get_datapath_deinit defines none *)
IsSentinel(name, o) ==
    CASE name \in PerLaneGetters -> o.kind = "list" /\ o.dict = NaList
      [] name = "get_loopback_capability" -> o.kind = "None"
      [] name = "get_laser_temperature" -> o = LaserTempDefault
      [] name \in {"get_module_pwr_up_duration", "get_module_pwr_down_duration", "get_application"} ->
             o.kind = "int" /\ o.dict = 0
      [] name = "get_datapath_deinit" -> o.kind # "raise"
      [] name \in VdmGetters ->
             o.kind = "dict" /\ \A k \in VdmKeys(name) : k.key \in DOMAIN o.dict /\ o.dict[k.key] = "N/A"

(* C19: on a module that reports flat memory every page-dependent getter
   (per-lane monitors and flags, loopback capability, laser temperature,
   durations, datapath-deinit status, staged application select, VDM
   aggregates) returns its sentinel and issues no read of a field on an upper
   page, after any sequence of calls. *)
C19_FlatMemory ==
    (call.name \in PageDependentGetters /\ cache.is_flat_memory.val) =>
        /\ IsSentinel(call.name, out)
        /\ \A i \in DOMAIN oplog : oplog[i].field \notin UpperPageFields

-----------------------------------------------------------------------------
(* Properties of the datapath lifecycle controller under write failures *)

FailedWrites == {i \in DOMAIN oplog : oplog[i].op = "write" /\ oplog[i].field \in wfail}

(* C21: when a register write of set_application, set_datapath_init,
   set_datapath_deinit or decommission_all_datapaths returns false, the call
   returns false to its caller. *)
C21_WriteFailureFalse ==
    (/\ call.name \in {"set_application", "set_datapath_init", "set_datapath_deinit",
                        "decommission_all_datapaths"}
     /\ FailedWrites # {})
        => ret = "False"

-----------------------------------------------------------------------------
(* Properties of the firmware upgrade under failing queries *)

StartIssued == \E i \in DOMAIN cdblog : cdblog[i].cmd = "start_fw_download"

(* C22: a module_fw_upgrade that ended before any start-download command (a
   failed firmware-info query or capability query) returned false with a
   diagnostic text: no fault reaches the caller. *)
C22_UpgradeNoFault ==
    (fw.op = "module_fw_upgrade" /\ fw.pc = "done" /\ ~StartIssued) => fw.ret = "False"

(* C30: a module_fw_switch (alone or as the last step of module_fw_upgrade)
   whose run command or commit command was refused does not report success,
   whatever the running flags show afterwards. *)
C30_SwitchNeedsRunAndCommit ==
    (/\ fw.op \in {"module_fw_switch", "module_fw_upgrade"}
     /\ fw.pc = "done"
     /\ (fw.run_status = "False" \/ fw.commit_status = "False"))
        => fw.ret # "True"

-----------------------------------------------------------------------------
(* Two callers of the read-modify-write setters.  No setter takes a lock, so a
   call is two steps, the read of the register and the write of the new value,
   and the steps of two calls may interleave.  In this specification `call` maps
   each caller to its frame and oplog carries the caller of every access. *)

Threads == {1, 2}

RaceIdle == [name |-> "none", pc |-> "idle", channel |-> 0, disable |-> FALSE, state |-> 0,
             ret |-> "None"]

RaceSetters == {"tx_disable_channel", "set_datapath_init", "set_datapath_deinit"}

(* the masks of the two callers are disjoint *)
RaceMasks(t) == IF t = 1 THEN {3} ELSE {48, 240}

RaceField(name) ==
    IF name = "tx_disable_channel" THEN "TX_DISABLE_FIELD" ELSE "DATAPATH_DEINIT_FIELD"

RaceReg(field) == IF field = "TX_DISABLE_FIELD" THEN module.tx_disable ELSE datapath_deinit

ByThread(t, e) == [caller |-> t, op |-> e.op, field |-> e.field, val |-> e.val, ok |-> e.ok]

(* get_tx_disable_channel: None, 'N/A' or the register, with the reads made *)
get_tx_disable_channel(c) ==
    LET support == get_tx_disable_support(c)
        state == Read("TX_DISABLE_FIELD", module.tx_disable)
    IN  IF support.val = "None" THEN [ok |-> FALSE, val |-> 0, log |-> support.log, cache |-> support.cache]
        ELSE IF support.val = "False"
        THEN [ok |-> FALSE, val |-> 0, log |-> support.log, cache |-> support.cache]
        ELSE [ok |-> state.ok, val |-> IF state.ok THEN module.tx_disable ELSE 0,
              log |-> Append(support.log, state), cache |-> support.cache]

TxDisableLoopOverwrite(lane, channel, disable, channel_state) == IF disable THEN channel ELSE 0

(* the loop of tx_disable_channel from `lane` on *)
RECURSIVE TxDisableLoop(_, _, _, _)
TxDisableLoop(lane, channel, disable, channel_state) ==
    IF lane = NUM_CHANNELS THEN channel_state
    ELSE TxDisableLoop(lane + 1, channel, disable,
                       IF ~InMask(lane, channel) THEN channel_state
                       ELSE IF disable THEN BitSet(channel_state, lane)
                       ELSE BitClear(channel_state, lane))

(* the value a setter writes after having read `state` *)
RaceData(name, channel, disable, state) ==
    CASE name = "tx_disable_channel" -> TxDisableLoop(0, channel, disable, state)
      [] name = "set_datapath_init" -> InitLoop(0, channel, cmis_major, state)
      [] name = "set_datapath_deinit" -> DeinitLoop(0, channel, cmis_major, state)

(* the first half of a call: the reads *)
RaceRead(t, name, channel, disable) ==
    /\ call[t].pc = "idle"
    /\ LET frame == [RaceIdle EXCEPT !.name = name, !.channel = channel, !.disable = disable]
           got == get_tx_disable_channel(cache)
       IN  IF name = "tx_disable_channel"
           THEN /\ call' = [call EXCEPT ![t] =
                               IF got.ok THEN [frame EXCEPT !.pc = "read", !.state = got.val]
                               ELSE [frame EXCEPT !.pc = "done", !.ret = "False"]]
                /\ oplog' = oplog \o [i \in DOMAIN got.log |-> ByThread(t, got.log[i])]
                /\ cache' = got.cache
           ELSE /\ call' = [call EXCEPT ![t] = [frame EXCEPT !.pc = "read", !.state = datapath_deinit]]
                /\ oplog' = oplog \o <<ByThread(t, Rd("CMIS_MAJOR_REVISION", cmis_major)),
                                       ByThread(t, Rd("DATAPATH_DEINIT_FIELD", datapath_deinit))>>
                /\ cache' = cache
    /\ UNCHANGED <<cmis_major, datapath_deinit, apsel, apply_dpinit, dp_state, config_status,
                   rfail, wfail, ret, prev, fwVars, module, lp, lb, out>>

(* the second half: the loop over the lanes and the write *)
RaceWrite(t) ==
    /\ call[t].pc = "read"
    /\ LET f == call[t]
           field == RaceField(f.name)
           data == RaceData(f.name, f.channel, f.disable, f.state)
       IN  /\ call' = [call EXCEPT ![t] =
                          [f EXCEPT !.pc = "done",
                                    !.ret = IF f.name # "tx_disable_channel" THEN "None"
                                            ELSE IF field \in wfail THEN "False" ELSE "True"]]
           /\ oplog' = Append(oplog, ByThread(t, Wr(field, data)))
           /\ IF field = "TX_DISABLE_FIELD"
              THEN /\ module' = [module EXCEPT !.tx_disable = Written(field, @, data)]
                   /\ UNCHANGED datapath_deinit
              ELSE /\ datapath_deinit' = Written(field, datapath_deinit, data)
                   /\ UNCHANGED module
    /\ UNCHANGED <<cmis_major, apsel, apply_dpinit, dp_state, config_status,
                   rfail, wfail, ret, prev, fwVars, cache, lp, lb, out>>

(* both callers took their results *)
RaceReturn ==
    /\ \A t \in Threads : call[t].pc = "done"
    /\ call' = [t \in Threads |-> RaceIdle]
    /\ oplog' = <<>>
    /\ UNCHANGED <<cmis_major, datapath_deinit, apsel, apply_dpinit, dp_state, config_status,
                   rfail, wfail, ret, prev, fwVars, module, cache, lp, lb, out>>

RaceRegisterValues == {0, 165}

InitRace ==
    /\ cmis_major \in {3, 4}
    /\ datapath_deinit \in RaceRegisterValues
    /\ apsel \in {[l \in LaneNums |-> v] : v \in {17}}
    /\ apply_dpinit = 0
    /\ dp_state = [l \in LaneNums |-> "DataPathDeactivated"]
    /\ config_status = [l \in LaneNums |-> "ConfigSuccess"]
    /\ call = [t \in Threads |-> RaceIdle]
    /\ ret = "None"
    /\ oplog = <<>>
    /\ prev = NoPrev
    /\ rfail = {}
    /\ wfail = {}
    /\ FwQuiet
    /\ \E v \in RaceRegisterValues :
          module = [ModuleQuiet EXCEPT !.support = {"TX_DISABLE_SUPPORT_FIELD"}, !.tx_disable = v]
    /\ cache = CacheAtInit(FALSE)
    /\ lp = LpIdle
    /\ lb = LbIdle
    /\ out = NoOut

NextRace ==
    \/ \E t \in Threads : \E name \in RaceSetters, m \in RaceMasks(t), disable \in BOOLEAN :
          RaceRead(t, name, m, disable /\ name = "tx_disable_channel")
    \/ \E t \in Threads : RaceWrite(t)
    \/ RaceReturn

SpecRace == InitRace /\ [][NextRace]_vars

(* both calls wrote the same register *)
BothWrote ==
    /\ \A t \in Threads : call[t].pc = "done" /\ call[t].ret # "False"
    /\ RaceField(call[1].name) = RaceField(call[2].name)

(* the call's bits are in the register: applying the call again changes nothing *)
Present(f) == RaceData(f.name, f.channel, f.disable, RaceReg(RaceField(f.name))) = RaceReg(RaceField(f.name))

(* an access of the other caller lies between a caller's read and its write of the register *)
Overlapped ==
    \E i, j, k \in DOMAIN oplog :
        /\ i < j /\ j < k
        /\ oplog[i].op = "read" /\ oplog[k].op = "write"
        /\ oplog[i].caller = oplog[k].caller /\ oplog[j].caller # oplog[i].caller
        /\ oplog[i].field = oplog[k].field /\ oplog[j].field = oplog[i].field

(* C23: two calls of read-modify-write setters on disjoint lane masks of the
   same register leave a register that lacks one call's bits only if their
   steps interleaved; run one after the other, both calls' bits are present. *)
C23_LostOnlyWhenInterleaved ==
    (BothWrote /\ \E t \in Threads : ~Present(call[t])) => Overlapped

(* the interleaving that loses an update is reachable *)
C23_LostUpdate == BothWrote /\ Overlapped /\ \E t \in Threads : ~Present(call[t])

-----------------------------------------------------------------------------
(* reset(): the write of the reset bit, then the polls of the module state.  The
   call in progress is kept in lp: its position, the polls made, the time slept. *)

ResetPolls == 5            \* for retries in range(5)
ResetSettleMs == 2000      \* time.sleep(2)
ResetPollMs == 1000        \* time.sleep(1)

ResetControl(reset) == IF reset THEN 8 ELSE 0               \* reset << 3

ResetReadyOnly(state) == state = "ModuleReady"

(* state in ['ModuleReady', 'ModuleLowPwr'] *)
ResetReady(state) == state \in {"ModuleReady", "ModuleLowPwr"}

(* reset_module(True) and, when it succeeds, the first sleep *)
Reset ==
    /\ lp.pc = "idle"
    /\ call' = LpCall("reset", FALSE, FALSE)
    /\ oplog' = <<Wr("MODULE_LEVEL_CONTROL", ResetControl(TRUE))>>
    /\ module' = [module EXCEPT !.control = Written("MODULE_LEVEL_CONTROL", @, ResetControl(TRUE))]
    /\ IF "MODULE_LEVEL_CONTROL" \in wfail
       THEN /\ ret' = "False"
            /\ lp' = [LpIdle EXCEPT !.pc = "done"]
       ELSE /\ ret' = "None"
            /\ lp' = [LpIdle EXCEPT !.pc = "reset_poll", !.elapsed = ResetSettleMs]
    /\ UNCHANGED <<LpQuietVars, rfail, wfail, cache>>

(* one iteration of the loop; the loop is left after the last one *)
ResetPoll ==
    /\ lp.pc = "reset_poll"
    /\ lp.polls < ResetPolls
    /\ LET state == get_module_state
       IN  /\ oplog' = oplog \o state.log
           /\ IF ResetReady(state.val)
              THEN /\ ret' = "True"
                   /\ lp' = [lp EXCEPT !.pc = "done", !.polls = @ + 1, !.hits = @ + 1]
              ELSE IF lp.polls + 1 = ResetPolls
              THEN /\ ret' = "False"
                   /\ lp' = [lp EXCEPT !.pc = "done", !.polls = @ + 1, !.elapsed = @ + ResetPollMs]
              ELSE /\ ret' = ret
                   /\ lp' = [lp EXCEPT !.polls = @ + 1, !.elapsed = @ + ResetPollMs]
    /\ UNCHANGED <<LpQuietVars, rfail, wfail, call, module, cache>>

ResetStates == {"ModuleLowPwr", "ModuleReady", "ModulePwrUp", "ModuleFault"}

InitReset ==
    /\ cmis_major = 4
    /\ datapath_deinit = 0
    /\ DpQuiet
    /\ FwQuiet
    /\ rfail \in {{}, {"MODULE_STATE"}}
    /\ wfail \in {{}, {"MODULE_LEVEL_CONTROL"}}
    /\ \E c \in LpControls, st \in ResetStates :
          module = [ModuleQuiet EXCEPT !.control = c, !.state = st]
    /\ cache = CacheAtInit(FALSE)
    /\ lp = LpIdle
    /\ lb = LbIdle
    /\ out = NoOut

NextReset ==
    \/ Reset
    \/ ResetPoll
    \/ LpReturn
    \/ \E v \in ResetStates : ModuleStateChange(v)
    \/ TransportReadFault("MODULE_STATE")

(* reset() is synchronous: once called, its loop keeps running *)
SpecReset == InitReset /\ [][NextReset]_vars /\ WF_vars(ResetPoll)

StateReads == AccessIndexes("read", {"MODULE_STATE"})

ReadyReads == {i \in StateReads : oplog[i].ok /\ oplog[i].val \in {"ModuleReady", "ModuleLowPwr"}}

ResetShape ==
    call.name = "reset" =>
        /\ Cardinality(ControlWrites) = 1
        /\ oplog[1] = Wr("MODULE_LEVEL_CONTROL", 8)
        /\ Cardinality(StateReads) = lp.polls
        /\ lp.polls <= 5
        /\ "MODULE_LEVEL_CONTROL" \in wfail => (lp.pc = "done" /\ ret = "False" /\ StateReads = {})
        /\ \A i \in ReadyReads : i = Len(oplog) /\ lp.pc = "done" /\ ret = "True"
        /\ (lp.pc = "done" /\ ret = "True") =>
              (ReadyReads = {Len(oplog)} /\ lp.elapsed = 2000 + 1000 * (lp.polls - 1))
        /\ (lp.pc = "done" /\ ret = "False" /\ "MODULE_LEVEL_CONTROL" \notin wfail) =>
              (lp.polls = 5 /\ ReadyReads = {} /\ lp.elapsed = 2000 + 1000 * 5)
        /\ lp.pc = "done" => ret \in {"True", "False"}

(* C24: reset() writes the reset bit once; a failed write returns false with no
   read of the module state; otherwise the module state is polled every second,
   at most 5 times, the first poll that sees ModuleReady or ModuleLowPwr returns
   true, the 5th unsuccessful poll returns false, and every call returns. *)
C24_Reset == []ResetShape /\ ((call.name = "reset") ~> (lp.pc = "done"))

(* a reset that gave up after its 5th poll *)
C24_Witness ==
    /\ call.name = "reset" /\ lp.pc = "done" /\ ret = "False"
    /\ lp.polls = 5
    /\ \E i \in StateReads : oplog[i].val = "ModulePwrUp"

-----------------------------------------------------------------------------
(* get_transceiver_threshold_info: the TX bias thresholds and the laser
   temperature thresholds.  The temperature, voltage and power entries are
   formatted from the same THRESHOLDS_FIELD read without the scale and are left
   out of the dict.  Currents are in tenths of a microampere. *)

MaxScaleRaw == 4           \* raw TX bias scale exponents 0..MaxScaleRaw

BiasThresholdKeys == {"txbiashighalarm", "txbiaslowalarm", "txbiashighwarning", "txbiaslowwarning"}

(* thresh[consts.TX_BIAS_*_FIELD] as the module holds it, in steps of 2 uA *)
BiasThreshold(key) ==
    CASE key = "txbiashighalarm" -> 1500000
      [] key = "txbiaslowalarm" -> 20
      [] key = "txbiashighwarning" -> 1310700
      [] key = "txbiaslowwarning" -> 40

(* float("{:.3f}".format(x)) of x milliamperes *)
Round3(x) == ((x + 5) \div 10) * 10

LaserThresholdKey(key) ==
    CASE key = "high alarm" -> "lasertemphighalarm"
      [] key = "low alarm" -> "lasertemplowalarm"
      [] key = "high warn" -> "lasertemphighwarning"
      [] key = "low warn" -> "lasertemplowwarning"

get_transceiver_threshold_info(c) ==
    LET thresh == Read("THRESHOLDS_FIELD", "thresholds")
        scale_raw == Read("TX_BIAS_SCALE", module.tx_bias_scale)
        laser == get_laser_temperature(c)
        bias == [k \in BiasThresholdKeys |->
                    IF scale_raw.ok THEN Val(Round3(BiasThreshold(k) * BiasScale(module.tx_bias_scale)))
                    ELSE NA]
        temps == [k \in {LaserThresholdKey(x) : x \in LaserTempKeys \ {"monitor value"}} |->
                    laser.out.dict[CHOOSE x \in LaserTempKeys \ {"monitor value"} :
                                       LaserThresholdKey(x) = k]]
    IN  IF c.is_flat_memory.val
        THEN Got([kind |-> "dict", exc |-> "none", dict |-> [k \in BiasThresholdKeys |-> NA]], <<>>)
        ELSE IF ~thresh.ok THEN Got(NoneOut, <<thresh>>)
        ELSE Got([kind |-> "dict", exc |-> "none", dict |-> bias @@ temps],
                 <<thresh, scale_raw>> \o laser.log)

GetTransceiverThresholdInfo ==
    GetterEffect("get_transceiver_threshold_info", get_transceiver_threshold_info(cache), cache)

BiasFields == {"TX_BIAS_SUPPORT_FIELD", "TX_BIAS_SCALE", "TX_BIAS_FIELD", "THRESHOLDS_FIELD"}

InitBias ==
    /\ cmis_major = 4
    /\ datapath_deinit = 0
    /\ DpQuiet
    /\ FwQuiet
    /\ rfail = {}
    /\ wfail = {}
    /\ \E flat \in BOOLEAN, sup \in {{"TX_BIAS_SUPPORT_FIELD"}, {}}, scale \in 0 .. MaxScaleRaw :
          /\ module = [ModuleQuiet EXCEPT !.flat_mem = flat, !.support = sup, !.tx_bias_scale = scale]
          /\ cache = CacheAtInit(flat)
    /\ lp = LpIdle
    /\ lb = LbIdle
    /\ out = NoOut

NextBias ==
    \/ \E f \in BiasFields :
          /\ Cardinality(rfail \cup {f}) <= 1
          /\ TransportReadFault(f)
    \/ GetPerLane("get_tx_bias")
    \/ GetTransceiverThresholdInfo

SpecBias == InitBias /\ [][NextBias]_vars

(* the multiplier of a raw scale exponent *)
Multiplier(s) == CASE s = 0 -> 1 [] s = 1 -> 2 [] s = 2 -> 4 [] OTHER -> 1

(* C25: every TX bias value and every TX bias threshold that is reported is the
   value the module holds times 2^s when the raw scale exponent s is below 3 and
   times 1 when s is 3 or more. *)
C25_BiasScale ==
    /\ (call.name = "get_tx_bias" /\ out.kind = "list") =>
          \A i \in LaneNums :
              ~out.dict[i].na =>
                  out.dict[i].v = LaneValue("TX_BIAS_FIELD", i) * Multiplier(module.tx_bias_scale)
    /\ (call.name = "get_transceiver_threshold_info" /\ out.kind = "dict") =>
          \A k \in BiasThresholdKeys :
              ~out.dict[k].na =>
                  out.dict[k].v = BiasThreshold(k) * Multiplier(module.tx_bias_scale)

(* thresholds reported with the raw exponent 3, the boundary *)
C25_Witness ==
    /\ call.name = "get_transceiver_threshold_info"
    /\ out.kind = "dict"
    /\ module.tx_bias_scale = 3
    /\ ~out.dict["txbiashighalarm"].na
    /\ out.dict["txbiashighalarm"].v = 1500000

-----------------------------------------------------------------------------
(* set_application followed by get_application *)

ApplMasks == {0, 6, 240}
ApplCodes == {0, 9, 15}

GetApplication(lane) ==
    GetterEffect("get_application", get_application(cache, lane), cache)

InitAppl ==
    /\ cmis_major = 4
    /\ datapath_deinit = 0
    /\ DpQuiet
    /\ FwQuiet
    /\ rfail \in {{}, {"STAGED_CTRL_APSEL_FIELD_0_2"}}
    /\ wfail \in {{}, {"STAGED_CTRL_APSEL_FIELD_0_3"}}
    /\ \E flat \in BOOLEAN :
          /\ module = [ModuleQuiet EXCEPT !.flat_mem = flat]
          /\ cache = CacheAtInit(flat)
    /\ lp = LpIdle
    /\ lb = LbIdle
    /\ out = NoOut

NextAppl ==
    \/ \E m \in ApplMasks, appl_code \in ApplCodes, ec \in {0, 1} : SetApplication(m, appl_code, ec)
    \/ \E lane \in Lanes : GetApplication(lane)

SpecAppl == InitAppl /\ [][NextAppl]_vars

MaskLanes(mask) == {l \in Lanes : InMask(l, mask)}

(* the writes of the call: one per lane of the mask, to that lane's AppSel register,
   with the code in bits 7..4, the lowest lane of the mask in bits 3..1, ec in bit 0 *)
ApselWrites ==
    LET lanes == MaskLanes(call.mask)
    IN  /\ Len(oplog) = Cardinality(lanes)
        /\ \A l \in lanes : \E i \in DOMAIN oplog : oplog[i].field = ApselField(l)
        /\ \A i \in DOMAIN oplog :
              /\ oplog[i].op = "write"
              /\ \E l \in lanes : oplog[i].field = ApselField(l)
              /\ oplog[i].val \div 16 = call.code
              /\ (oplog[i].val \div 2) % 8 = CHOOSE l \in lanes : \A k \in lanes : l <= k
              /\ oplog[i].val % 2 = call.ec

ReturnsCode(lane) ==
    LET r == get_application(cache, lane)
    IN  r.out.kind = "int" /\ r.out.dict = call.code

(* C26 as stated: after set_application(mask, code, ec) with code in 0..15 the
   AppSel register of exactly the lanes in mask was written with code, lowest
   lane and ec, and get_application returns code for every lane in mask. *)
C26_Original ==
    call.name = "set_application" =>
        (ApselWrites /\ \A l \in MaskLanes(call.mask) : ReturnsCode(l))

(* C26, amended: the writes are as stated, and get_application returns code for
   every lane in mask on a paged-memory module when the lane's AppSel write and
   read succeed. *)
C26_Application ==
    call.name = "set_application" =>
        /\ ApselWrites
        /\ \A l \in MaskLanes(call.mask) :
              (~module.flat_mem /\ ApselField(l) \notin wfail \cup rfail) => ReturnsCode(l)

(* lanes 1 and 2 selected with code 9 and ec 1: both registers hold 9 << 4 | 1 << 1 | 1 *)
C26_Witness ==
    /\ call.name = "set_application"
    /\ call.mask = 6 /\ call.code = 9 /\ call.ec = 1
    /\ ~module.flat_mem /\ wfail = {} /\ rfail = {}
    /\ apsel[2] = 147 /\ apsel[3] = 147
    /\ ReturnsCode(1) /\ ReturnsCode(2)

-----------------------------------------------------------------------------
(* The application advertisement, descriptor by descriptor.  module.advt is the
   content of the advertisement registers: for each application index the host
   electrical interface id, the media interface id ("None": the key is absent)
   and the set of the other descriptor fields that are present. *)

MaxAdvertised == 2         \* application indexes 1..MaxAdvertised may carry a descriptor
ApplIndexes == 1 .. 15     \* range(1, 16)

OptionalFields ==
    {"media_lane_count", "host_lane_count", "host_lane_assignment_options",
     "media_lane_assignment_options"}

NoDescriptor == [host |-> "None", media |-> "None", present |-> {}]

Descriptor(app) == IF app \in DOMAIN module.advt THEN module.advt[app] ELSE NoDescriptor

(* the fields whose absence makes the loop `continue` *)
RequiredFields == OptionalFields \ {"media_lane_assignment_options"}

(* the keys of buf when ret[app] = buf is reached, {} when the iteration is left before *)
ApplBuf(d, prefix) ==
    IF d.host \in {"None", "Unknown", "Undefined"} THEN {}
    ELSE IF prefix = "None" THEN {}
    ELSE IF d.media \in {"None", "Unknown"} THEN {}
    ELSE IF ~(RequiredFields \subseteq d.present) THEN {}
    ELSE {"host_electrical_interface_id", "module_media_interface_id"} \cup d.present

(* the body of get_application_advertisement: the dict maps an index to the keys of its entry *)
ApplAdvt(c) ==
    LET dic == Read("APPLS_ADVT_FIELD", "advt")
        page01 == Read("APPLS_ADVT_FIELD_PAGE01", "advt01")
        media_type == Read("MEDIA_TYPE_FIELD", "sm_media_interface")
        prefix == IF media_type.ok THEN "MODULE_MEDIA_INTERFACE_SM" ELSE "None"
        entries == [app \in {a \in ApplIndexes : ApplBuf(Descriptor(a), prefix) # {}} |->
                       ApplBuf(Descriptor(app), prefix)]
    IN  IF ~dic.ok \/ DOMAIN module.advt = {} THEN [val |-> EmptyDict, log |-> <<dic>>]
        ELSE IF c.is_flat_memory.val THEN [val |-> entries, log |-> <<dic, media_type>>]
        ELSE IF ~page01.ok THEN [val |-> EmptyDict, log |-> <<dic, page01>>]
        ELSE [val |-> entries, log |-> <<dic, page01, media_type>>]

GetApplicationAdvertisement ==
    LET r == Memo(cache, "get_application_advertisement", ApplAdvt(cache))
    IN  GetterEffect("get_application_advertisement",
                     Got([kind |-> "dict", exc |-> "none", dict |-> r.val], r.log), r.cache)

(* get_media_lane_assignment_option(appl): 'N/A', 0, 1 for the options of the entry, or
   the KeyError of a missing index or key *)
MediaLaneAssignmentOption(c, appl) ==
    LET r == Memo(c, "get_application_advertisement", ApplAdvt(c))
        appl_advt == r.val
        raise == [kind |-> "raise", exc |-> "KeyError", dict |-> EmptyDict]
    IN  [out |-> IF c.is_flat_memory.val THEN [kind |-> "N/A", exc |-> "none", dict |-> EmptyDict]
                 ELSE IF appl <= 0 THEN IntOut(0)
                 ELSE IF ~(Cardinality(DOMAIN appl_advt) >= appl) THEN IntOut(0)
                 ELSE IF appl \notin DOMAIN appl_advt THEN raise
                 ELSE IF "media_lane_assignment_options" \notin appl_advt[appl] THEN raise
                 ELSE IntOut(1),
         log |-> IF c.is_flat_memory.val \/ appl <= 0 THEN <<>> ELSE r.log,
         cache |-> IF c.is_flat_memory.val \/ appl <= 0 THEN c ELSE r.cache]

GetMediaLaneAssignmentOption(appl) ==
    LET r == MediaLaneAssignmentOption(cache, appl)
    IN  GetterEffect("get_media_lane_assignment_option", Got(r.out, r.log), r.cache)

HostIds == {"None", "Undefined", "400GAUI-8 C2M (Annex 120E)"}
MediaIds == {"None", "Unknown", "400GBASE-DR4 (Cl 124)"}
Descriptors == [host : HostIds, media : MediaIds, present : SUBSET OptionalFields]
FullDescriptor ==
    [host |-> "400GAUI-8 C2M (Annex 120E)", media |-> "400GBASE-DR4 (Cl 124)", present |-> OptionalFields]

(* the first index carries any descriptor, the following ones a whole one or none *)
Advertisements ==
    {<<>>} \cup {[a \in 1 .. n |-> IF a = 1 THEN d ELSE FullDescriptor] :
                    n \in 1 .. MaxAdvertised, d \in Descriptors}

InitAdvt ==
    /\ cmis_major = 4
    /\ datapath_deinit = 0
    /\ DpQuiet
    /\ FwQuiet
    /\ rfail \in {{}, {"APPLS_ADVT_FIELD"}, {"APPLS_ADVT_FIELD_PAGE01"}, {"MEDIA_TYPE_FIELD"}}
    /\ wfail = {}
    /\ \E flat \in BOOLEAN, advt \in Advertisements :
          /\ module = [ModuleQuiet EXCEPT !.flat_mem = flat, !.advt = advt]
          /\ cache = CacheAtInit(flat)
    /\ lp = LpIdle
    /\ lb = LbIdle
    /\ out = NoOut

NextAdvt ==
    \/ GetApplicationAdvertisement
    \/ \E appl \in 0 .. MaxAdvertised : GetMediaLaneAssignmentOption(appl)

SpecAdvt == InitAdvt /\ [][NextAdvt]_vars

(* every field of the descriptor of an index is present *)
WholeDescriptor(app) ==
    LET d == Descriptor(app)
    IN  /\ d.host \notin {"None", "Unknown", "Undefined"}
        /\ d.media \notin {"None", "Unknown"}
        /\ OptionalFields \subseteq d.present

(* C27: the advertisement holds an entry for an index only if the host
   electrical interface id, the media interface id, the host and media lane
   counts and the host and media lane assignment options of its descriptor are
   all present. *)
C27_WholeDescriptors ==
    call.name = "get_application_advertisement" =>
        \A app \in DOMAIN out.dict : WholeDescriptor(app)

KeyErrorRaised == call.name = "get_media_lane_assignment_option" /\ out.kind = "raise"

-----------------------------------------------------------------------------
(* Sequences of loopback calls on a module whose capability register is constant
   and whose reads and writes all succeed; nothing else touches the registers. *)

(* every direction supported; simultaneous and per-lane bits in all combinations
   but one *)
SeqCapabilities == {15, 31, 47, 63, 79, 127}
SeqMasks == {3, AllLanes}

HostActive == module.host_input # 0 \/ module.host_output # 0
MediaActive == module.media_input # 0 \/ module.media_output # 0

Advertised(key) == BitAt(module.loopback_capability, CapabilityBit[key]) = 1

(* what the claims ask of the state the sequence starts in *)
SeqStart ==
    /\ ~Advertised("simultaneous_host_media_loopback_supported") => ~(HostActive /\ MediaActive)
    /\ ~Advertised("per_lane_host_loopback_supported") =>
          (module.host_input \in {0, 255} /\ module.host_output \in {0, 255})
    /\ ~Advertised("per_lane_media_loopback_supported") =>
          (module.media_input \in {0, 255} /\ module.media_output \in {0, 255})

InitLoopbackSeq ==
    /\ cmis_major = 4
    /\ datapath_deinit = 0
    /\ DpQuiet
    /\ FwQuiet
    /\ rfail = {}
    /\ wfail = {}
    /\ \E c \in SeqCapabilities, hi, mi, mo \in {0, 3, 255} :
          module = [ModuleQuiet EXCEPT !.loopback_capability = c, !.host_input = hi,
                                       !.media_input = mi, !.media_output = mo]
    /\ SeqStart
    /\ cache = CacheAtInit(FALSE)
    /\ lp = LpIdle
    /\ lb = LbIdle
    /\ out = NoOut

NextLoopbackSeq ==
    \/ \E mode \in LoopbackModes, m \in SeqMasks, enable \in BOOLEAN : SetOneLoopback(mode, m, enable)
    \/ \E mode \in LoopbackModes \cup {"none", "line-side"}, m \in SeqMasks, enable \in BOOLEAN :
          SetLoopbackMode(mode, m, enable)

SpecLoopbackSeq == InitLoopbackSeq /\ [][NextLoopbackSeq]_vars

(* C28: when simultaneous host and media loopback is not advertised, no sequence
   of loopback setter and set_loopback_mode calls leaves a host-side register
   and a media-side register non-zero together. *)
C28_NoSimultaneous ==
    ~Advertised("simultaneous_host_media_loopback_supported") => ~(HostActive /\ MediaActive)

(* a media-side enable refused because the host side is looped back *)
C28_Witness ==
    /\ ~Advertised("simultaneous_host_media_loopback_supported")
    /\ call.name \in {"set_loopback", "set_loopback_mode"}
    /\ call.mode = "media-side-input" /\ call.enable
    /\ ret = "False"
    /\ lb.pre.HOST_INPUT_LOOPBACK = 0 /\ lb.pre.HOST_OUTPUT_LOOPBACK = 3
    /\ module.host_output = 3 /\ ~MediaActive

(* C29: when per-lane granularity is not advertised for a side, each loopback
   register of that side holds 0x00 or 0xFF after every sequence of setter
   calls: a call changes all 8 lanes together or writes nothing. *)
C29_AllLanesTogether ==
    /\ ~Advertised("per_lane_host_loopback_supported") =>
          (module.host_input \in {0, 255} /\ module.host_output \in {0, 255})
    /\ ~Advertised("per_lane_media_loopback_supported") =>
          (module.media_input \in {0, 255} /\ module.media_output \in {0, 255})

(* a per-lane call refused without a write, and a call on all lanes that wrote 0xFF *)
C29_Witness ==
    /\ ~Advertised("per_lane_host_loopback_supported")
    /\ call.name = "set_loopback" /\ call.mode = "host-side-input"
    /\ call.mask = 3 /\ call.enable
    /\ ret = "False"
    /\ oplog # <<>> /\ \A i \in DOMAIN oplog : oplog[i].op = "read"
    /\ module.host_input = 0 /\ module.host_output = 255

====
